---- MODULE Spec2Model ----
(***************************************************************************)
(* Cash-Box: the profile route handlers (GET, PUT, PATCH of                *)
(* app/api/profile/route.ts) over the users table.                         *)
(*                                                                         *)
(* A PUT is split at its database round trips (uniqueness query, UPDATE,   *)
(* re-fetch), so that handlers of different requests interleave there.     *)
(* GET and PATCH make one database call each and are one step.             *)
(***************************************************************************)
EXTENDS Integers, Sequences, FiniteSets, TLC

\* ------------------------------------------------------------------ bounds
\* The rows of the users table, and the requests a behaviour receives (each
\* may be in flight while the others are).
NumUsers == 2
MaxRequests == 2
\* The items a receipt draft is given at most.
MaxItems == 2
\* The receipts a response of the list is given at most.
MaxReceipts == 2

\* ------------------------------------------------------- JavaScript values
\* A JSON / column value: its type tag and, for a string, its characters.
Undef == [t |-> "undefined", s |-> <<>>]
Null == [t |-> "null", s |-> <<>>]
True == [t |-> "true", s |-> <<>>]
False == [t |-> "false", s |-> <<>>]
Str(chars) == [t |-> "string", s |-> chars]

\* JavaScript truthiness: undefined, null, false and "" are falsy.
Truthy(v) == v.t = "true" \/ (v.t = "string" /\ v.s # <<>>)

\* The value passed on as it came, a falsy one included.
KeepFalsy(v) == v

\* `v || null`
OrNull(v) == IF Truthy(v) THEN v ELSE Null

Digit == {"0", "1", "2", "3", "4", "5", "6", "7", "8", "9"}
Upper == {"A", "B", "C", "D", "E", "F", "G", "H", "I", "J", "K", "L", "M",
          "N", "O", "P", "Q", "R", "S", "T", "U", "V", "W", "X", "Y", "Z"}

\* A test of the length alone.
StoreContactLengthOnly(v) == v.t = "string" /\ Len(v.s) = 10

\* /^\d{10}$/.test(v)
StoreContactRegex(v) ==
    /\ v.t = "string"
    /\ Len(v.s) = 10
    /\ \A i \in 1..Len(v.s) : v.s[i] \in Digit

\* /^[0-9A-Z]{15}$/.test(v)
GstNumberRegex(v) ==
    /\ v.t = "string"
    /\ Len(v.s) = 15
    /\ \A i \in 1..Len(v.s) : v.s[i] \in (Digit \cup Upper)

\* ------------------------------------------------------------ the database
UserIds == 1..NumUsers
\* An identity the verifier still accepts although no row has that id.
GhostId == NumUsers + 1
Identities == UserIds \cup {GhostId}

DigitChar(i) == <<"1", "2", "3", "4", "5", "6", "7", "8", "9">>[i]
ContactOf(i) == Str([k \in 1..10 |-> DigitChar(i)])
SuperkeyOf(i) == Str(<<"k", DigitChar(i)>>)
ValidGst == Str([k \in 1..15 |-> IF k % 2 = 0 THEN "A" ELSE "7"])

\* A row right after registration: no store details yet.
FreshRow(i) ==
    [id |-> i, superkey |-> SuperkeyOf(i), name |-> Str(<<>>),
     store_name |-> Null, store_address |-> Null, store_contact |-> Null,
     store_country_code |-> Null, gst_number |-> Null, profile_photo |-> Null,
     profile_complete |-> 0, created_at |-> 1]

\* A row whose owner completed the profile earlier.
CompleteRow(i) ==
    [id |-> i, superkey |-> SuperkeyOf(i), name |-> Str(<<"o">>),
     store_name |-> Str(<<"o">>), store_address |-> Str(<<"o">>),
     store_contact |-> ContactOf(i), store_country_code |-> Str(<<"+", "1">>),
     gst_number |-> ValidGst, profile_photo |-> Str(<<"o">>),
     profile_complete |-> 1, created_at |-> 1]

\* users:    the users table, one row per id
\* inflight: the PUT handlers between two of their awaits
\* resp:     the response sent last, with the method and Authorization header
\*           of the request it answers
\* started:  the number of requests received so far
\* request:  in SpecOne, the one request whose handling is followed
\* checkedOut: the connections taken from the pool and not released
VARIABLES users, inflight, resp, started, request, checkedOut

profileVars == <<users, inflight, resp, started, request, checkedOut>>

\* The state of the receipt creation page (its definitions follow the route's).
\* receiptData, paymentDetails, isSubmitting: the state of CreateReceipt
\* errors:        the paths of the errors map
\* page:          "loading" until initialize ends, "open" while the form is
\*                shown, "left" after router.push
\* effectPending: a dependency of the totals effect changed in the last render
\* posts:         the bodies POSTed to /api/receipts and not yet answered
VARIABLES receiptData, paymentDetails, errors, isSubmitting, page,
          effectPending, posts

draftVars ==
    <<receiptData, paymentDetails, errors, isSubmitting, page, effectPending,
      posts>>

\* responseData:  the receipts /api/viewreceipts answers with
\* timeZone:      the time zone of the browser
\* receipts:      the receipts loaded, their totals made numbers
\* loading:       TRUE until checkAuthAndFetchReceipts ends
\* loadError:     the message of a failed load, "" for none
\* searchTerm, statusFilter, selectedYear, selectedMonth: the search input
\*                and the three menus
VARIABLES responseData, timeZone, receipts, loading, loadError, searchTerm,
          statusFilter, selectedYear, selectedMonth

listVars ==
    <<responseData, timeZone, receipts, loading, loadError, searchTerm,
      statusFilter, selectedYear, selectedMonth>>

vars == <<profileVars, draftVars, listVars>>

\* ------------------------------------------------------------- the requests
\* The bearer tokens a caller may present: one the verifier resolves to an
\* identity, one it rejects, one that has expired.
Tokens ==
    [kind : {"valid"}, uid : Identities]
        \cup {[kind |-> "invalid", uid |-> 0], [kind |-> "expired", uid |-> 0]}

NoToken == [kind |-> "none", uid |-> 0]

\* The Authorization header: absent, another scheme, or "Bearer <token>".
Headers ==
    {[present |-> FALSE, scheme |-> "", token |-> NoToken],
     [present |-> TRUE, scheme |-> "Basic ", token |-> NoToken]}
        \cup [present : {TRUE}, scheme : {"Bearer "}, token : Tokens]

\* authHeader?.startsWith("Bearer ")
StartsWithBearer(authHeader) ==
    authHeader.present /\ authHeader.scheme = "Bearer "

\* Errors are what a catch block looks at: .code and .message.
NoError == [code |-> "", message |-> ""]
JwtExpiredError == [code |-> "", message |-> "jwt expired"]
JsonSyntaxError == [code |-> "", message |-> "Unexpected token in JSON"]
DupEntryError ==
    [code |-> "ER_DUP_ENTRY", message |-> "Duplicate entry for key store_contact"]
\* What a failing database call throws: one message names the database, one
\* does not.
DbErrors ==
    {[code |-> "ER_BAD_DB_ERROR", message |-> "Unknown database"],
     [code |-> "ECONNRESET", message |-> "read ECONNRESET"]}
\* The outcome the environment gives a database call.
DbOutcomes == {NoError} \cup DbErrors

\* error.message.includes("jwt expired")
IncludesJwtExpired(message) == message = "jwt expired"
\* error.message.includes("database")
IncludesDatabase(message) == message = "Unknown database"

\* verifyJwt(token): the identity, a falsy value for a token it rejects, or a
\* thrown "jwt expired".
verifyJwt(token) ==
    CASE token.kind = "valid" -> [error |-> NoError, userId |-> token.uid]
      [] token.kind = "expired" -> [error |-> JwtExpiredError, userId |-> 0]
      [] OTHER -> [error |-> NoError, userId |-> 0]

\* The body of a PUT: the parsed fields, or text that is not JSON.
requiredFields ==
    <<"name", "storeName", "storeAddress", "storeContact", "storeCountryCode">>

NoPayload ==
    [name |-> Undef, storeName |-> Undef, storeAddress |-> Undef,
     storeContact |-> Undef, storeCountryCode |-> Undef, gstNumber |-> Undef,
     profilePhoto |-> Undef]

Payloads ==
    [name : {Undef, Str(<<"n">>)},
     storeName : {Str(<<>>), Str(<<"n">>)},
     storeAddress : {Null, Str(<<"n">>)},
     storeContact : {Undef, Str(<<"1", "2", "3", "4", "5">>),
                     Str([k \in 1..10 |-> IF k = 4 THEN "x" ELSE "1"])}
                        \cup {ContactOf(i) : i \in UserIds},
     storeCountryCode : {Undef, Str(<<"+", "9", "1">>)},
     gstNumber : {Undef, Null, Str(<<>>), Str(<<"a", "b", "c">>), ValidGst},
     profilePhoto : {Undef, Null, Str(<<>>), Str(<<"p">>)}]

Bodies ==
    {[parses |-> FALSE, data |-> NoPayload]}
        \cup [parses : {TRUE}, data : Payloads]

\* The content-type header.
ContentTypes == {"application/json", "text/plain"}

\* contentType.includes("application/json")
IncludesJson(contentType) == contentType = "application/json"

\* ------------------------------------------------------------- responses
NoDetails == [kind |-> "none", str |-> "", arr |-> <<>>]
StringDetails(str) == [kind |-> "string", str |-> str, arr |-> <<>>]
ArrayDetails(arr) == [kind |-> "array", str |-> "", arr |-> arr]

createErrorResponse(error, status, details) ==
    [status |-> status,
     error |-> error,
     details |-> IF details.kind = "string" /\ details.str # ""
                 THEN details.str ELSE "",
     missingFields |-> IF details.kind = "array" THEN details.arr ELSE <<>>,
     body |-> {}]

\* NextResponse.json(data): status 200.
JsonResponse(data) ==
    [status |-> 200, error |-> "", details |-> "", missingFields |-> <<>>,
     body |-> {data}]

\* What the caller who sent `method` with `authHeader` receives.
Sent(method, authHeader, response) ==
    [method |-> method, authHeader |-> authHeader] @@ response

NoHeader == [present |-> FALSE, scheme |-> "", token |-> NoToken]
BearerOf(uid) ==
    [present |-> TRUE, scheme |-> "Bearer ",
     token |-> [kind |-> "valid", uid |-> uid]]

NoResponse ==
    Sent("", NoHeader, createErrorResponse("", 0, NoDetails))

\* What a stretch of a handler ends in: a response, or the next stretch.
Done(response) == [done |-> TRUE, response |-> response, userId |-> 0]
Proceed(userId) ==
    [done |-> FALSE, response |-> createErrorResponse("", 0, NoDetails),
     userId |-> userId]

\* How the probe of ensureDatabaseConnection goes: pool.getConnection() and
\* ping() both answer, getConnection() throws, or ping() throws.
Probes == {"ok", "getConnection fails", "ping fails"}

\* async ensureDatabaseConnection(): true when the ping answered.
ensureDatabaseConnection(probe) == probe = "ok"

\* The connections the probe still holds when it returns: release() follows
\* ping() inside the try block, so a ping that throws skips it.
ProbeHeld(probe) == IF probe = "ping fails" THEN 1 ELSE 0

\* ------------------------------------------------------------------- GET
GET_catch(error) ==
    IF IncludesJwtExpired(error.message)
    THEN createErrorResponse("Session expired. Please log in again.", 401,
                             NoDetails)
    ELSE IF IncludesDatabase(error.message)
    THEN createErrorResponse("Database error occurred", 503,
                             StringDetails(error.message))
    ELSE createErrorResponse("Internal server error", 500,
                             StringDetails(error.message))

GET_authenticate(probe, authHeader) ==
    IF ~ensureDatabaseConnection(probe)
    THEN Done(createErrorResponse("Database connection failed", 500, NoDetails))
    ELSE IF ~StartsWithBearer(authHeader)
    THEN Done(createErrorResponse("Missing or invalid authorization header",
                                  401, NoDetails))
    ELSE LET v == verifyJwt(authHeader.token) IN
         IF v.error # NoError THEN Done(GET_catch(v.error))
         ELSE IF v.userId = 0
         THEN Done(createErrorResponse("Invalid or expired token", 401,
                                       NoDetails))
         ELSE Proceed(v.userId)

\* SELECT ... FROM users WHERE id = ? LIMIT 1, with the handler's aliases.
SelectProfile(table, userId) ==
    {[id |-> table[i].id,
      superkey |-> table[i].superkey,
      name |-> table[i].name,
      mobile |-> table[i].store_contact,
      createdAt |-> table[i].created_at,
      storeName |-> table[i].store_name,
      storeAddress |-> table[i].store_address,
      storeContact |-> table[i].store_contact,
      storeCountryCode |-> table[i].store_country_code,
      gstNumber |-> table[i].gst_number,
      profilePhoto |-> table[i].profile_photo,
      isProfileComplete |-> table[i].profile_complete]
        : i \in {j \in DOMAIN table : table[j].id = userId}}

\* new Date().toISOString(), as a timestamp later than any stored one.
Now == 2

\* A test of id and superkey alone.
GET_missingFields_NoMobile(user) ==
    (IF user.id = 0 THEN <<"id">> ELSE <<>>)
        \o (IF ~Truthy(user.superkey) THEN <<"superkey">> ELSE <<>>)

\* The fields of requiredFields = ["id", "superkey", "mobile"] that are falsy.
GET_missingFields(user) ==
    (IF user.id = 0 THEN <<"id">> ELSE <<>>)
        \o (IF ~Truthy(user.superkey) THEN <<"superkey">> ELSE <<>>)
        \o (IF ~Truthy(user.mobile) THEN <<"mobile">> ELSE <<>>)

GET_respond(rows) ==
    IF rows = {}
    THEN createErrorResponse("User not found", 404, NoDetails)
    ELSE LET user == CHOOSE r \in rows : TRUE
             missingFields == GET_missingFields(user)
         IN  IF Len(missingFields) > 0
             THEN createErrorResponse("Incomplete user data", 500,
                                      ArrayDetails(missingFields))
             ELSE JsonResponse(
                     [user EXCEPT
                        !.isProfileComplete = (user.isProfileComplete # 0),
                        !.createdAt =
                            IF user.createdAt # 0 THEN user.createdAt ELSE Now])

GET(probe, authHeader, outcome) ==
    /\ started < MaxRequests
    /\ started' = started + 1
    /\ LET a == GET_authenticate(probe, authHeader) IN
       resp' = Sent("GET", authHeader,
                    IF a.done THEN a.response
                    ELSE IF outcome # NoError THEN GET_catch(outcome)
                    ELSE GET_respond(SelectProfile(users, a.userId)))
    /\ checkedOut' = checkedOut + ProbeHeld(probe)
    /\ UNCHANGED <<users, inflight, request>>
    /\ UNCHANGED <<draftVars, listVars>>

\* ------------------------------------------------------------------- PUT
\* A catch block that does not look at error.code.
PUT_catch_NoDupEntry(error) ==
    IF IncludesJwtExpired(error.message)
    THEN createErrorResponse("Session expired. Please log in again.", 401,
                             NoDetails)
    ELSE IF IncludesDatabase(error.message)
    THEN createErrorResponse("Database error occurred", 503,
                             StringDetails(error.message))
    ELSE createErrorResponse("Internal server error", 500,
                             StringDetails(error.message))

PUT_catch(error) ==
    IF error.code = "ER_DUP_ENTRY"
    THEN createErrorResponse(
            "Duplicate entry: This phone number is already in use.", 409,
            NoDetails)
    ELSE IF IncludesJwtExpired(error.message)
    THEN createErrorResponse("Session expired. Please log in again.", 401,
                             NoDetails)
    ELSE IF IncludesDatabase(error.message)
    THEN createErrorResponse("Database error occurred", 503,
                             StringDetails(error.message))
    ELSE createErrorResponse("Internal server error", 500,
                             StringDetails(error.message))

PUT_authenticate(probe, authHeader) ==
    IF ~ensureDatabaseConnection(probe)
    THEN Done(createErrorResponse("Database connection failed", 500, NoDetails))
    ELSE IF ~StartsWithBearer(authHeader)
    THEN Done(createErrorResponse("Authorization header missing or invalid",
                                  401, NoDetails))
    ELSE LET v == verifyJwt(authHeader.token) IN
         IF v.error # NoError THEN Done(PUT_catch(v.error))
         ELSE IF v.userId = 0
         THEN Done(createErrorResponse("Invalid or expired token", 401,
                                       NoDetails))
         ELSE Proceed(v.userId)

\* requiredFields.find(...): the first falsy field alone.
firstMissingField(updateData) ==
    LET all == SelectSeq(requiredFields, LAMBDA field : ~Truthy(updateData[field]))
    IN  IF all = <<>> THEN <<>> ELSE <<Head(all)>>

\* requiredFields.filter((field) => !updateData[field])
missingFields(updateData) ==
    SelectSeq(requiredFields, LAMBDA field : ~Truthy(updateData[field]))

\* A completeness test that also asks for the optional GST number.
isProfileCompleteWithGst(updateData) ==
    /\ \A k \in 1..Len(requiredFields) : Truthy(updateData[requiredFields[k]])
    /\ Truthy(updateData.gstNumber)

\* requiredFields.every((field) => updateData[field])
isProfileComplete(updateData) ==
    \A k \in 1..Len(requiredFields) : Truthy(updateData[requiredFields[k]])

\* The checks with the store contact format tested before the presence of
\* the mandatory fields.
PUT_validate_ContactFirst(contentType, body) ==
    IF ~IncludesJson(contentType)
    THEN Done(createErrorResponse(
                "Invalid content type. Must be application/json", 400,
                NoDetails))
    ELSE IF ~body.parses THEN Done(PUT_catch(JsonSyntaxError))
    ELSE LET updateData == body.data IN
         IF ~StoreContactRegex(updateData.storeContact)
         THEN Done(createErrorResponse(
                     "Store contact must be exactly 10 digits", 400, NoDetails))
         ELSE IF Len(missingFields(updateData)) # 0
         THEN Done(createErrorResponse("Missing required fields", 400,
                                       ArrayDetails(missingFields(updateData))))
         ELSE IF Truthy(updateData.gstNumber)
                    /\ ~GstNumberRegex(updateData.gstNumber)
         THEN Done(createErrorResponse(
                     "GST number must be exactly 15 alphanumeric characters",
                     400, NoDetails))
         ELSE Proceed(0)

\* From the content-type check to the last check before the pool is used.
PUT_validate(contentType, body) ==
    IF ~IncludesJson(contentType)
    THEN Done(createErrorResponse(
                "Invalid content type. Must be application/json", 400,
                NoDetails))
    ELSE IF ~body.parses THEN Done(PUT_catch(JsonSyntaxError))
    ELSE LET updateData == body.data IN
         IF Len(missingFields(updateData)) # 0
         THEN Done(createErrorResponse("Missing required fields", 400,
                                       ArrayDetails(missingFields(updateData))))
         ELSE IF ~StoreContactRegex(updateData.storeContact)
         THEN Done(createErrorResponse(
                     "Store contact must be exactly 10 digits", 400, NoDetails))
         ELSE IF Truthy(updateData.gstNumber)
                    /\ ~GstNumberRegex(updateData.gstNumber)
         THEN Done(createErrorResponse(
                     "GST number must be exactly 15 alphanumeric characters",
                     400, NoDetails))
         ELSE Proceed(0)

\* SELECT id FROM users WHERE store_contact = ? AND id != ?
existingUsers(table, storeContact, userId) ==
    {table[i].id : i \in {j \in DOMAIN table :
                            /\ table[j].store_contact = storeContact
                            /\ table[j].id # userId}}

\* The column list and the value list of the UPDATE, built side by side.
updateFields(updateData) ==
    <<"name", "store_name", "store_address", "store_contact",
      "store_country_code", "gst_number">>
        \o (IF updateData.profilePhoto # Undef
            THEN <<"profile_photo">> ELSE <<>>)
        \o <<"profile_complete">>

\* Values that pass gstNumber on as the payload has it.
updateValuesGstAsGiven(updateData) ==
    <<updateData.name, updateData.storeName, updateData.storeAddress,
      updateData.storeContact, updateData.storeCountryCode,
      updateData.gstNumber>>
        \o (IF updateData.profilePhoto # Undef
            THEN <<OrNull(updateData.profilePhoto)>> ELSE <<>>)
        \o <<IF isProfileComplete(updateData) THEN 1 ELSE 0>>

updateValues(updateData) ==
    <<updateData.name, updateData.storeName, updateData.storeAddress,
      updateData.storeContact, updateData.storeCountryCode,
      OrNull(updateData.gstNumber)>>
        \o (IF updateData.profilePhoto # Undef
            THEN <<OrNull(updateData.profilePhoto)>> ELSE <<>>)
        \o <<IF isProfileComplete(updateData) THEN 1 ELSE 0>>

\* Column c after SET fields[k] = values[k]: the value of the assignment
\* that names c, the stored value when none does.
SetColumn(row, fields, values, c) ==
    IF \E k \in 1..Len(fields) : fields[k] = c
    THEN values[CHOOSE k \in 1..Len(fields) : fields[k] = c]
    ELSE row[c]

SetColumns(row, fields, values) ==
    [id |-> SetColumn(row, fields, values, "id"),
     superkey |-> SetColumn(row, fields, values, "superkey"),
     name |-> SetColumn(row, fields, values, "name"),
     store_name |-> SetColumn(row, fields, values, "store_name"),
     store_address |-> SetColumn(row, fields, values, "store_address"),
     store_contact |-> SetColumn(row, fields, values, "store_contact"),
     store_country_code |-> SetColumn(row, fields, values, "store_country_code"),
     gst_number |-> SetColumn(row, fields, values, "gst_number"),
     profile_photo |-> SetColumn(row, fields, values, "profile_photo"),
     profile_complete |-> SetColumn(row, fields, values, "profile_complete"),
     created_at |-> SetColumn(row, fields, values, "created_at")]

\* A users table whose store_contact column carries no unique index.
NoUniqueIndex(table, i, row) == FALSE

\* The unique index on users.store_contact: another row already holds the
\* value this row would take (NULL is never a duplicate).
UniqueStoreContactViolated(table, i, row) ==
    /\ row.store_contact # Null
    /\ \E j \in DOMAIN table : j # i /\ table[j].store_contact = row.store_contact

\* UPDATE users SET <fields> with no WHERE clause: every row is written.
UpdateEveryRow(table, fields, values, userId) ==
    LET written == [i \in DOMAIN table |->
                      SetColumns(table[i], fields, values)]
    IN  IF \E i \in DOMAIN table :
               UniqueStoreContactViolated(table, i, written[i])
        THEN [error |-> DupEntryError, table |-> table, affectedRows |-> 0]
        ELSE [error |-> NoError, table |-> written,
              affectedRows |-> Cardinality(DOMAIN table)]

\* UPDATE users SET <fields> WHERE id = ?, as the database executes it: the
\* rows the statement leaves, the rows it matched, and the error it raised.
UpdateUsers(table, fields, values, userId) ==
    LET matched == {i \in DOMAIN table : table[i].id = userId}
        written == [i \in DOMAIN table |->
                      IF i \in matched
                      THEN SetColumns(table[i], fields, values)
                      ELSE table[i]]
    IN  IF \E i \in matched : UniqueStoreContactViolated(table, i, written[i])
        THEN [error |-> DupEntryError, table |-> table, affectedRows |-> 0]
        ELSE [error |-> NoError, table |-> written,
              affectedRows |-> Cardinality(matched)]

\* A PUT handler of request number s runs in slot s.
Slots == 1..MaxRequests

Idle == [pc |-> "idle", userId |-> 0, updateData |-> NoPayload]

\* PUT, up to the token check: lines 178-195.
PutBegin(probe, authHeader) ==
    /\ started < MaxRequests
    /\ started' = started + 1
    /\ LET a == PUT_authenticate(probe, authHeader) IN
       IF a.done
       THEN /\ resp' = Sent("PUT", authHeader, a.response)
            /\ UNCHANGED inflight
       ELSE /\ inflight' = [inflight EXCEPT
                               ![started + 1] =
                                   [pc |-> "authed", userId |-> a.userId,
                                    updateData |-> NoPayload]]
            /\ UNCHANGED resp
    /\ checkedOut' = checkedOut + ProbeHeld(probe)
    /\ UNCHANGED <<users, request>>
    /\ UNCHANGED <<draftVars, listVars>>

\* PUT, the checks on the request itself: lines 197-243.
PutValidate(s, contentType, body) ==
    /\ inflight[s].pc = "authed"
    /\ LET v == PUT_validate(contentType, body) IN
       IF v.done
       THEN /\ resp' = Sent("PUT", BearerOf(inflight[s].userId), v.response)
            /\ inflight' = [inflight EXCEPT ![s] = Idle]
       ELSE /\ inflight' = [inflight EXCEPT ![s].pc = "check",
                                            ![s].updateData = body.data]
            /\ UNCHANGED resp
    /\ UNCHANGED <<users, started, request, checkedOut>>
    /\ UNCHANGED <<draftVars, listVars>>

\* PUT, the connection and the uniqueness query: lines 245-259.
PutCheckUnique(s, outcome) ==
    /\ inflight[s].pc = "check"
    /\ LET userId == inflight[s].userId
           updateData == inflight[s].updateData
       IN  IF outcome # NoError
           THEN /\ resp' = Sent("PUT", BearerOf(userId), PUT_catch(outcome))
                /\ inflight' = [inflight EXCEPT ![s] = Idle]
                /\ UNCHANGED checkedOut
           ELSE IF existingUsers(users, updateData.storeContact, userId) # {}
           THEN /\ resp' = Sent("PUT", BearerOf(userId),
                                createErrorResponse(
                                  "This phone number is already registered to another account.",
                                  409, NoDetails))
                /\ inflight' = [inflight EXCEPT ![s] = Idle]
                /\ UNCHANGED checkedOut
           ELSE /\ inflight' = [inflight EXCEPT ![s].pc = "update"]
                /\ checkedOut' = checkedOut + 1
                /\ UNCHANGED resp
    /\ UNCHANGED <<users, started, request>>
    /\ UNCHANGED <<draftVars, listVars>>

\* PUT, the UPDATE: lines 261-292.
PutUpdate(s, outcome) ==
    /\ inflight[s].pc = "update"
    /\ LET userId == inflight[s].userId
           updateData == inflight[s].updateData
           result == UpdateUsers(users, updateFields(updateData),
                                 updateValues(updateData), userId)
           error == IF outcome # NoError THEN outcome ELSE result.error
       IN  IF error # NoError
           THEN /\ resp' = Sent("PUT", BearerOf(userId), PUT_catch(error))
                /\ inflight' = [inflight EXCEPT ![s] = Idle]
                /\ checkedOut' = checkedOut - 1
                /\ UNCHANGED users
           ELSE /\ users' = result.table
                /\ inflight' = [inflight EXCEPT ![s].pc = "refetch"]
                /\ UNCHANGED <<resp, checkedOut>>
    /\ UNCHANGED <<started, request>>
    /\ UNCHANGED <<draftVars, listVars>>

\* The re-fetch selects the columns GET selects, but not store_contact AS
\* mobile.
WithoutMobile(row) ==
    [id |-> row.id, superkey |-> row.superkey, name |-> row.name,
     createdAt |-> row.createdAt, storeName |-> row.storeName,
     storeAddress |-> row.storeAddress, storeContact |-> row.storeContact,
     storeCountryCode |-> row.storeCountryCode, gstNumber |-> row.gstNumber,
     profilePhoto |-> row.profilePhoto,
     isProfileComplete |-> row.isProfileComplete]

\* PUT, the re-fetch and the answer: lines 294-319.
PutRefetch(s, outcome) ==
    /\ inflight[s].pc = "refetch"
    /\ LET userId == inflight[s].userId
           updatedUsers == SelectProfile(users, userId)
       IN  resp' = Sent("PUT", BearerOf(userId),
                        IF outcome # NoError THEN PUT_catch(outcome)
                        ELSE IF updatedUsers = {}
                        THEN createErrorResponse("Updated user not found", 404,
                                                 NoDetails)
                        ELSE JsonResponse(
                               WithoutMobile(CHOOSE r \in updatedUsers : TRUE)))
    /\ inflight' = [inflight EXCEPT ![s] = Idle]
    /\ checkedOut' = checkedOut - 1
    /\ UNCHANGED <<users, started, request>>
    /\ UNCHANGED <<draftVars, listVars>>

\* ----------------------------------------------------------------- PATCH
PATCH_catch(error) ==
    createErrorResponse("Update failed", 500, StringDetails(error.message))

PATCH_authenticate(probe, authHeader) ==
    IF ~ensureDatabaseConnection(probe)
    THEN Done(createErrorResponse("Database connection failed", 500, NoDetails))
    ELSE IF ~StartsWithBearer(authHeader)
    THEN Done(createErrorResponse("Authorization header missing or invalid",
                                  401, NoDetails))
    ELSE LET v == verifyJwt(authHeader.token) IN
         IF v.error # NoError THEN Done(PATCH_catch(v.error))
         ELSE IF v.userId = 0
         THEN Done(createErrorResponse("Invalid or expired token", 401,
                                       NoDetails))
         ELSE Proceed(v.userId)

\* The body of a PATCH: { isProfileComplete }, or text that is not JSON.
PatchBodies ==
    {[parses |-> FALSE, isProfileComplete |-> Undef]}
        \cup [parses : {TRUE}, isProfileComplete : {True, False, Undef}]

\* An answer that does not look at result.affectedRows.
PATCH_respond_Always200(affectedRows, flag) ==
    JsonResponse([success |-> TRUE, isProfileComplete |-> flag])

\* The answer to an UPDATE that ran: lines 393-400.
PATCH_respond(affectedRows, flag) ==
    IF affectedRows = 0
    THEN createErrorResponse("User not found or no changes made", 404,
                             NoDetails)
    ELSE JsonResponse([success |-> TRUE, isProfileComplete |-> flag])

PATCH(probe, authHeader, body, outcome) ==
    /\ started < MaxRequests
    /\ started' = started + 1
    /\ LET a == PATCH_authenticate(probe, authHeader)
           result == UpdateUsers(users, <<"profile_complete">>,
                                 <<IF Truthy(body.isProfileComplete)
                                   THEN 1 ELSE 0>>,
                                 a.userId)
           error == IF ~body.parses THEN JsonSyntaxError
                    ELSE IF outcome # NoError THEN outcome
                    ELSE result.error
       IN  IF a.done
           THEN /\ resp' = Sent("PATCH", authHeader, a.response)
                /\ UNCHANGED users
           ELSE IF error # NoError
           THEN /\ resp' = Sent("PATCH", authHeader, PATCH_catch(error))
                /\ UNCHANGED users
           ELSE /\ users' = result.table
                /\ resp' = Sent("PATCH", authHeader,
                                PATCH_respond(result.affectedRows,
                                              body.isProfileComplete))
    /\ checkedOut' = checkedOut + ProbeHeld(probe)
    /\ UNCHANGED <<inflight, request>>
    /\ UNCHANGED <<draftVars, listVars>>

\* ====================================================== the receipt page
\* The receipt creation page (CreateReceipt): the draft it holds in
\* receiptData, its edit handlers, the effect that recomputes the totals, and
\* handleSubmit.
\*
\* Amounts (prices, advances, dues, totals) are held in units of 1/10000 of a
\* rupee, which keeps every division by 100 of the page exact.
Unit == 100 * 100

\* ------------------------------------------------- numbers and their texts
\* A JavaScript number, NaN, and the two ways a number can be absent.
Num(n) == [t |-> "number", n |-> n]
NaN == [t |-> "NaN", n |-> 0]
NoNum == [t |-> "undefined", n |-> 0]
NullNum == [t |-> "null", n |-> 0]

\* typeof v === 'number' && !isNaN(v) ? v : 0
NumberOrZero(v) == IF v.t = "number" THEN v.n ELSE 0

\* `v || 0` of a number.
OrZero(v) == IF v.t = "number" /\ v.n # 0 THEN v ELSE Num(0)

\* isNaN(v) ? 0 : Math.max(v, 0)
ClampAtZero(v) ==
    IF v.t # "number" THEN Num(0) ELSE IF v.n > 0 THEN v ELSE Num(0)

DigitValue(c) ==
    CHOOSE d \in 0..9 :
        <<"0", "1", "2", "3", "4", "5", "6", "7", "8", "9">>[d + 1] = c

RECURSIVE DigitsValue(_)
DigitsValue(chars) ==
    IF chars = <<>> THEN 0
    ELSE 10 * DigitsValue(SubSeq(chars, 1, Len(chars) - 1))
            + DigitValue(chars[Len(chars)])

\* The digits a text starts with.
RECURSIVE DigitPrefix(_)
DigitPrefix(chars) ==
    IF chars = <<>> THEN <<>>
    ELSE IF chars[1] \notin Digit THEN <<>>
    ELSE <<chars[1]>> \o DigitPrefix(Tail(chars))

\* parseInt(text): an optional sign and the digits that follow; NaN without
\* a digit. What follows the digits is ignored.
parseInt(text) ==
    LET negative == text # <<>> /\ text[1] = "-"
        digits == DigitPrefix(IF negative THEN Tail(text) ELSE text)
    IN  IF digits = <<>> THEN NaN
        ELSE Num((IF negative THEN -1 ELSE 1) * DigitsValue(digits))

\* The first four decimals of a fraction, as a count of 1/10000.
FractionValue(chars) ==
    DigitsValue(SubSeq(chars \o <<"0", "0", "0", "0">>, 1, 4))

\* parseFloat(text), in units of 1/10000: sign, digits, and a fraction after
\* a point (exponents are not typed here).
parseFloat(text) ==
    LET negative == text # <<>> /\ text[1] = "-"
        body == IF negative THEN Tail(text) ELSE text
        digits == DigitPrefix(body)
        rest == SubSeq(body, Len(digits) + 1, Len(body))
        fraction == IF rest # <<>> /\ rest[1] = "."
                    THEN DigitPrefix(Tail(rest)) ELSE <<>>
    IN  IF digits = <<>> /\ fraction = <<>> THEN NaN
        ELSE Num((IF negative THEN -1 ELSE 1)
                    * (DigitsValue(digits) * Unit + FractionValue(fraction)))

\* ------------------------------------------------------------- the draft
\* { description: "", quantity: 0, price: 0 }: advanceAmount and dueAmount
\* are absent until typed.
NewItem ==
    [description |-> <<>>, quantity |-> Num(0), price |-> Num(0),
     advanceAmount |-> NoNum, dueAmount |-> NoNum]

\* The receipt number the next-number collaborator assigns.
ReceiptNumber == <<"R", "1">>
Today == <<"2", "0", "2", "6", "-", "1", "1", "-", "0", "2">>

\* useState(...): the draft of a page just opened.
InitialReceiptData ==
    [receiptNumber |-> <<>>, date |-> Today, customerName |-> <<>>,
     customerContact |-> <<>>, paymentType |-> "cash",
     paymentStatus |-> "full", items |-> <<NewItem>>, total |-> 0,
     dueTotal |-> 0, gstPercentage |-> NullNum, gstAmount |-> 0]

\* The argument of updateItem: the text of an input, or a number.
StringValue(text) == [type |-> "string", text |-> text, num |-> NaN]
NumberValue(num) == [type |-> "number", text |-> <<>>, num |-> num]

\* parsedValue of updateItem.
parsedValue(field, value) ==
    IF value.type = "string"
    THEN IF field = "description" THEN value.text
         ELSE IF field = "quantity"
         THEN IF value.text = <<>> THEN Num(0)
              ELSE ClampAtZero(OrZero(parseInt(value.text)))
         ELSE IF value.text = <<>> THEN Num(0)
              ELSE OrZero(parseFloat(value.text))
    ELSE value.num

\* { ...item, [field]: parsed }
WithField(item, field, parsed) ==
    CASE field = "description" -> [item EXCEPT !.description = parsed]
      [] field = "quantity" -> [item EXCEPT !.quantity = parsed]
      [] field = "price" -> [item EXCEPT !.price = parsed]
      [] field = "advanceAmount" -> [item EXCEPT !.advanceAmount = parsed]
      [] field = "dueAmount" -> [item EXCEPT !.dueAmount = parsed]

\* The items updateItem(index, field, value) leaves (index from 1).
updateItem(items, index, field, value) ==
    [items EXCEPT ![index] = WithField(items[index], field,
                                       parsedValue(field, value))]

\* newItems.splice(index, 1)
Splice(items, index) ==
    SubSeq(items, 1, index - 1) \o SubSeq(items, index + 1, Len(items))

\* ------------------------------------------------------ the totals effect
\* numbers.reduce((sum, n) => sum + n, 0)
RECURSIVE Sum(_)
Sum(numbers) ==
    IF numbers = <<>> THEN 0
    ELSE Sum(SubSeq(numbers, 1, Len(numbers) - 1)) + numbers[Len(numbers)]

\* The subtotal of lines 157-162.
subtotal(items) ==
    Sum([k \in DOMAIN items |->
            NumberOrZero(items[k].quantity) * NumberOrZero(items[k].price)])

\* The sum of the advances, lines 177-180, and of the dues, lines 182-185.
advanceSum(items) ==
    Sum([k \in DOMAIN items |-> NumberOrZero(items[k].advanceAmount)])

dueSum(items) ==
    Sum([k \in DOMAIN items |-> NumberOrZero(items[k].dueAmount)])

effectiveGstPercentage(gstPercentage) == NumberOrZero(gstPercentage)

\* A tax computed on the total shown before, tax included.
gstAmountOnTotal(data) ==
    (data.total * effectiveGstPercentage(data.gstPercentage)) \div 100

\* (subtotal * effectiveGstPercentage) / 100
gstAmountOf(data) ==
    (subtotal(data.items) * effectiveGstPercentage(data.gstPercentage)) \div 100

\* A due total that is computed for "full" as it is for "advance".
dueTotalFullAsAdvance(data, total) ==
    IF data.paymentStatus \in {"advance", "full"}
    THEN total - advanceSum(data.items)
    ELSE dueSum(data.items)

\* A due total that is never negative.
dueTotalClamped(data, total) ==
    IF data.paymentStatus = "advance"
    THEN IF total - advanceSum(data.items) < 0 THEN 0
         ELSE total - advanceSum(data.items)
    ELSE IF data.paymentStatus = "due" THEN dueSum(data.items)
    ELSE 0

\* A due total that, for "due", is what the total leaves after the dues.
dueTotalDueFromTotal(data, total) ==
    IF data.paymentStatus = "advance" THEN total - advanceSum(data.items)
    ELSE IF data.paymentStatus = "due" THEN total - dueSum(data.items)
    ELSE 0

\* dueTotal of lines 172-186.
dueTotalOf(data, total) ==
    IF data.paymentStatus = "advance" THEN total - advanceSum(data.items)
    ELSE IF data.paymentStatus = "due" THEN dueSum(data.items)
    ELSE 0

\* An effect that also writes the percentage it computed with.
totalsEffectWritesPercentage(data) ==
    LET gstAmount == gstAmountOf(data)
        total == subtotal(data.items) + gstAmount
    IN  [data EXCEPT !.total = total,
                     !.gstAmount = gstAmount,
                     !.dueTotal = dueTotalOf(data, total),
                     !.gstPercentage = Num(effectiveGstPercentage(data.gstPercentage))]

\* The draft the effect leaves: { ...prev, total, gstAmount, dueTotal }.
totalsEffect(data) ==
    LET gstAmount == gstAmountOf(data)
        total == subtotal(data.items) + gstAmount
    IN  [data EXCEPT !.total = total,
                     !.gstAmount = gstAmount,
                     !.dueTotal = dueTotalOf(data, total)]

\* ------------------------------------------------------- the selects
\* The items of the GST select and the value each stands for.
GstItems ==
    {<<"n", "o", "n", "e">>, <<"5">>, <<"1", "2">>, <<"1", "8">>, <<"2", "8">>}

\* percentage of line 416
gstPercentageOf(value) ==
    IF value = <<"n", "o", "n", "e">> THEN NullNum ELSE parseInt(value)

\* The value the GST select shows: line 414.
gstSelectValue(data) ==
    IF NumberOrZero(data.gstPercentage) # 0
    THEN CHOOSE value \in GstItems : gstPercentageOf(value) = data.gstPercentage
    ELSE <<"n", "o", "n", "e">>

\* onValueChange of the GST select: lines 415-422.
gstChange(data, value) ==
    LET percentage == gstPercentageOf(value) IN
    [data EXCEPT !.gstPercentage = percentage,
                 !.gstAmount = IF NumberOrZero(percentage) # 0
                               THEN (data.total * percentage.n) \div 100
                               ELSE 0]

\* A status change that leaves the payment type as selected.
statusChangeKeepsType(data, newStatus) ==
    [data EXCEPT !.paymentStatus = newStatus,
                 !.gstPercentage = IF newStatus = "due" THEN NullNum ELSE @,
                 !.gstAmount = IF newStatus = "due" THEN 0 ELSE @]

\* onValueChange of the payment status select: lines 466-476.
statusChange(data, newStatus) ==
    [data EXCEPT !.paymentStatus = newStatus,
                 !.paymentType = IF newStatus = "due" THEN "cash" ELSE @,
                 !.gstPercentage = IF newStatus = "due" THEN NullNum ELSE @,
                 !.gstAmount = IF newStatus = "due" THEN 0 ELSE @]

\* ------------------------------------------------------------ handleSubmit
\* paymentDetails: {} until a payment phone number is typed.
NoPaymentDetails == [entered |-> FALSE, phoneNumber |-> <<>>]

\* /^\d{4}-\d{2}-\d{2}$/.test(text)
DateRegex(text) ==
    /\ Len(text) = 10
    /\ \A k \in 1..10 : IF k \in {5, 8} THEN text[k] = "-" ELSE text[k] \in Digit

\* An item schema that lets a quantity and a price of 0 through.
ReceiptItemSchemaFromZero(item, field) ==
    \/ field = "description" /\ Len(item.description) < 1
    \/ field = "quantity" /\ (item.quantity.t # "number" \/ item.quantity.n < 0)
    \/ field = "price" /\ (item.price.t # "number" \/ item.price.n < 0)

\* ReceiptItemSchema: the field of an item the schema refuses.
ReceiptItemSchema(item, field) ==
    \/ field = "description" /\ Len(item.description) < 1
    \/ field = "quantity" /\ (item.quantity.t # "number" \/ item.quantity.n < 1)
    \/ field = "price"
          /\ (item.price.t # "number" \/ item.price.n < Unit \div 100)
    \/ field = "advanceAmount"
          /\ item.advanceAmount.t # "undefined"
          /\ (item.advanceAmount.t # "number" \/ item.advanceAmount.n < 0)
    \/ field = "dueAmount"
          /\ item.dueAmount.t # "undefined"
          /\ (item.dueAmount.t # "number" \/ item.dueAmount.n < 0)

ItemFields == {"description", "quantity", "price", "advanceAmount", "dueAmount"}

\* A schema that lets a dueTotal below 0 through.
ReceiptSchemaAnyDueTotal(data) ==
    {<<path>> : path \in
        {f \in {"receiptNumber", "customerName", "customerContact", "items"} :
            \/ f = "receiptNumber" /\ Len(data.receiptNumber) < 1
            \/ f = "customerName" /\ Len(data.customerName) < 1
            \/ f = "customerContact" /\ Len(data.customerContact) < 10
            \/ f = "items" /\ Len(data.items) < 1}}
    \cup {<<"items", k - 1, field>> : <<k, field>> \in
            {p \in (DOMAIN data.items) \X ItemFields :
                ReceiptItemSchema(data.items[p[1]], p[2])}}

\* The paths ReceiptSchema.safeParse refuses: every one, not the first.
ReceiptSchema(data) ==
    {<<path>> : path \in
        {f \in {"receiptNumber", "date", "customerName", "customerContact",
                "dueTotal", "total", "items", "gstAmount"} :
            \/ f = "receiptNumber" /\ Len(data.receiptNumber) < 1
            \/ f = "date" /\ ~DateRegex(data.date)
            \/ f = "customerName" /\ Len(data.customerName) < 1
            \/ f = "customerContact" /\ Len(data.customerContact) < 10
            \/ f = "total" /\ data.total < 0
            \/ f = "dueTotal" /\ data.dueTotal < 0
            \/ f = "items" /\ Len(data.items) < 1
            \/ f = "gstAmount" /\ data.gstAmount < 0}}
    \cup {<<"items", k - 1, field>> : <<k, field>> \in
            {p \in (DOMAIN data.items) \X ItemFields :
                ReceiptItemSchema(data.items[p[1]], p[2])}}

\* A submission that asks for no payment phone number.
phoneRuleNever(data, details) == FALSE

\* The check after the schema, lines 290-294.
phoneRuleViolated(data, details) ==
    /\ data.paymentType = "online"
    /\ (~details.entered \/ details.phoneNumber = <<>>
            \/ Len(details.phoneNumber) # 10)

\* requestBody of lines 303-320.
requestBody(data, details) ==
    [receiptNumber |-> data.receiptNumber, date |-> data.date,
     customerName |-> data.customerName,
     customerContact |-> data.customerContact,
     paymentType |-> IF data.paymentStatus = "due" THEN "cash"
                     ELSE data.paymentType,
     paymentStatus |-> data.paymentStatus, total |-> data.total,
     dueTotal |-> data.dueTotal, items |-> data.items,
     paymentDetails |-> details,
     gstPercentage |-> IF NumberOrZero(data.gstPercentage) # 0
                       THEN data.gstPercentage ELSE NoNum,
     gstAmount |-> IF data.gstAmount # 0 THEN Num(data.gstAmount) ELSE NoNum]


\* ------------------------------------------------------------ the page
\* An event handler runs on the form as rendered, after the effects of the
\* render before it have run.
FormShown == page = "open" /\ ~effectPending

\* setReceiptData with new items: the effect runs after the render.
SetItems(items) ==
    /\ receiptData' = [receiptData EXCEPT !.items = items]
    /\ effectPending' = TRUE
    /\ UNCHANGED <<paymentDetails, errors, isSubmitting, page, posts>>

\* initialize (lines 90-129): the session, the profile and the next number.
initialize(outcome) ==
    /\ page = "loading"
    /\ CASE outcome = "ok" ->
              /\ receiptData' = [receiptData EXCEPT !.receiptNumber = ReceiptNumber]
              /\ page' = "open"
              /\ UNCHANGED errors
         [] outcome = "failed" ->
              /\ errors' = {<<"form">>}
              /\ page' = "open"
              /\ UNCHANGED receiptData
         [] OTHER ->
              /\ page' = "left"
              /\ UNCHANGED <<receiptData, errors>>
    /\ UNCHANGED <<paymentDetails, isSubmitting, effectPending, posts>>

addItem ==
    /\ FormShown
    /\ Len(receiptData.items) < MaxItems
    /\ SetItems(Append(receiptData.items, NewItem))

\* A removeItem without the early return of line 199.
removeItemAlways(index) ==
    /\ FormShown
    /\ index \in DOMAIN receiptData.items
    /\ SetItems(Splice(receiptData.items, index))

\* removeItem: lines 198-206.
removeItem(index) ==
    /\ FormShown
    /\ index \in DOMAIN receiptData.items
    /\ IF Len(receiptData.items) <= 1
       THEN UNCHANGED draftVars
       ELSE SetItems(Splice(receiptData.items, index))

\* onChange of the description input: lines 581-583.
onDescriptionChange(index, text) ==
    /\ FormShown
    /\ index \in DOMAIN receiptData.items
    /\ SetItems(updateItem(receiptData.items, index, "description",
                           StringValue(text)))

\* onChange of the quantity input: lines 601-604.
onQuantityChange(index, text) ==
    /\ FormShown
    /\ index \in DOMAIN receiptData.items
    /\ SetItems(updateItem(receiptData.items, index, "quantity",
                           NumberValue(ClampAtZero(parseInt(text)))))

\* onChange of the price input: lines 625-628.
onPriceChange(index, text) ==
    /\ FormShown
    /\ index \in DOMAIN receiptData.items
    /\ SetItems(updateItem(receiptData.items, index, "price",
                           NumberValue(ClampAtZero(parseFloat(text)))))

\* onChange of the advance input, shown in "advance" status: lines 641-656.
onAdvanceChange(index, text) ==
    /\ FormShown
    /\ receiptData.paymentStatus = "advance"
    /\ index \in DOMAIN receiptData.items
    /\ SetItems(updateItem(receiptData.items, index, "advanceAmount",
                           StringValue(text)))

\* onChange of the due input, shown in "due" status: lines 665-678.
onDueChange(index, text) ==
    /\ FormShown
    /\ receiptData.paymentStatus = "due"
    /\ index \in DOMAIN receiptData.items
    /\ SetItems(updateItem(receiptData.items, index, "dueAmount",
                           StringValue(text)))

\* The GST select, shown unless the status is "due"; it reports a value other
\* than the one it shows.
onGstChange(value) ==
    /\ FormShown
    /\ receiptData.paymentStatus # "due"
    /\ value # gstSelectValue(receiptData)
    /\ receiptData' = gstChange(receiptData, value)
    /\ effectPending' = TRUE
    /\ UNCHANGED <<paymentDetails, errors, isSubmitting, page, posts>>

\* The payment type select, shown unless the status is "due": lines 438-460.
onPaymentTypeChange(value) ==
    /\ FormShown
    /\ receiptData.paymentStatus # "due"
    /\ value # receiptData.paymentType
    /\ receiptData' = [receiptData EXCEPT !.paymentType = value]
    /\ UNCHANGED <<paymentDetails, errors, isSubmitting, page, effectPending,
                   posts>>

\* The payment status select: lines 464-476.
onPaymentStatusChange(value) ==
    /\ FormShown
    /\ value # receiptData.paymentStatus
    /\ receiptData' = statusChange(receiptData, value)
    /\ effectPending' = TRUE
    /\ UNCHANGED <<paymentDetails, errors, isSubmitting, page, posts>>

\* handleChange of the customer name input: lines 228-233.
handleChange(name, value) ==
    /\ FormShown
    /\ name = "customerName"
    /\ receiptData' = [receiptData EXCEPT !.customerName = value]
    /\ UNCHANGED <<paymentDetails, errors, isSubmitting, page, effectPending,
                   posts>>

handlePhoneChange(value) ==
    /\ FormShown
    /\ receiptData' = [receiptData EXCEPT !.customerContact = value]
    /\ UNCHANGED <<paymentDetails, errors, isSubmitting, page, effectPending,
                   posts>>

\* The payment phone input, shown for an online payment that is not due:
\* lines 509-517.
handlePaymentPhoneChange(value) ==
    /\ FormShown
    /\ receiptData.paymentType = "online"
    /\ receiptData.paymentStatus # "due"
    /\ paymentDetails' = [entered |-> TRUE, phoneNumber |-> value]
    /\ UNCHANGED <<receiptData, errors, isSubmitting, page, effectPending,
                   posts>>

\* [receiptData.items, receiptData.paymentStatus, receiptData.gstPercentage]
dependencies(data) == <<data.items, data.paymentStatus, data.gstPercentage>>

\* The effect of lines 156-189, run after a render in which items,
\* paymentStatus or gstPercentage changed.
runTotalsEffect ==
    /\ page = "open"
    /\ effectPending
    /\ receiptData' = totalsEffect(receiptData)
    /\ effectPending' = (dependencies(receiptData') # dependencies(receiptData))
    /\ UNCHANGED <<paymentDetails, errors, isSubmitting, page, posts>>

\* handleSubmit up to its await of fetch: lines 251-329. The button is
\* disabled while isSubmitting.
handleSubmit(session) ==
    /\ FormShown
    /\ ~isSubmitting
    /\ CASE session = "none" ->
              /\ page' = "left"
              /\ UNCHANGED <<errors, isSubmitting, posts>>
         [] session = "no token" ->
              /\ errors' = {<<"form">>}
              /\ UNCHANGED <<page, isSubmitting, posts>>
         [] OTHER ->
              IF ReceiptSchema(receiptData) # {}
              THEN /\ errors' = ReceiptSchema(receiptData)
                   /\ UNCHANGED <<page, isSubmitting, posts>>
              ELSE IF phoneRuleViolated(receiptData, paymentDetails)
              THEN /\ errors' = {<<"paymentDetails", "phoneNumber">>}
                   /\ UNCHANGED <<page, isSubmitting, posts>>
              ELSE /\ errors' = {}
                   /\ isSubmitting' = TRUE
                   /\ posts' = posts \cup {requestBody(receiptData, paymentDetails)}
                   /\ UNCHANGED page
    /\ UNCHANGED <<receiptData, paymentDetails, effectPending>>

\* A response handler without the finally of lines 340-342 on a failure.
handleSubmitResponseNoFinally(body, ok) ==
    /\ body \in posts
    /\ posts' = posts \ {body}
    /\ IF ok
       THEN page' = "left" /\ isSubmitting' = FALSE /\ UNCHANGED errors
       ELSE errors' = errors \cup {<<"form">>} /\ UNCHANGED <<page, isSubmitting>>
    /\ UNCHANGED <<receiptData, paymentDetails, effectPending>>

\* handleSubmit after the await: lines 331-342.
handleSubmitResponse(body, ok) ==
    /\ body \in posts
    /\ posts' = posts \ {body}
    /\ isSubmitting' = FALSE
    /\ IF ok
       THEN page' = "left" /\ UNCHANGED errors
       ELSE errors' = errors \cup {<<"form">>} /\ UNCHANGED page
    /\ UNCHANGED <<receiptData, paymentDetails, effectPending>>

\* ============================================================ the receipt list
\* ViewReceipts: the list of the owner's receipts, its search and its filters.
\*
\* ------------------------------------------------------------- texts
\* text.toLowerCase()
toLowerCase(text) ==
    LET upper == <<"A", "B", "C", "D", "E", "F", "G", "H", "I", "J", "K", "L",
                   "M", "N", "O", "P", "Q", "R", "S", "T", "U", "V", "W", "X",
                   "Y", "Z">>
        lower == <<"a", "b", "c", "d", "e", "f", "g", "h", "i", "j", "k", "l",
                   "m", "n", "o", "p", "q", "r", "s", "t", "u", "v", "w", "x",
                   "y", "z">>
        LowerOf(c) == IF \E k \in 1..26 : upper[k] = c
                      THEN lower[CHOOSE k \in 1..26 : upper[k] = c]
                      ELSE c
    IN  [k \in DOMAIN text |-> LowerOf(text[k])]

\* text.trim(): without the spaces at its two ends.
trim(text) ==
    LET kept == {k \in DOMAIN text : text[k] # " "}
    IN  IF kept = {} THEN <<>>
        ELSE SubSeq(text, CHOOSE k \in kept : \A j \in kept : k <= j,
                          CHOOSE k \in kept : \A j \in kept : k >= j)

\* field.includes(term)
includes(field, term) ==
    \E i \in 0..(Len(field) - Len(term)) :
        SubSeq(field, i + 1, i + Len(term)) = term

\* n.toString() of an integer n >= 0.
RECURSIVE IntegerToString(_)
IntegerToString(n) ==
    IF n < 10 THEN <<(<<"0">> \o [i \in 1..9 |-> DigitChar(i)])[n + 1]>>
    ELSE IntegerToString(n \div 10) \o IntegerToString(n % 10)

\* value.toString() of a number held in units of 1/10000: the integer part
\* and, unless it is 0, a point and the fraction without its trailing zeros.
toString(value) ==
    LET magnitude == IF value < 0 THEN 0 - value ELSE value
        fraction == Tail(IntegerToString(Unit + (magnitude % Unit)))
        shown == {k \in 1..4 : fraction[k] # "0"}
    IN  (IF value < 0 THEN <<"-">> ELSE <<>>)
            \o IntegerToString(magnitude \div Unit)
            \o (IF shown = {} THEN <<>>
                ELSE <<".">> \o SubSeq(fraction, 1,
                                       CHOOSE k \in shown : \A j \in shown : k >= j))

\* --------------------------------------------------------- the receipts
\* total: number | string
NumberTotal(n) == [t |-> "number", n |-> n, s |-> <<>>]
StringTotal(s) == [t |-> "string", n |-> 0, s |-> s]

\* processedReceipts (lines 64-83): a total that is a string is stripped of
\* all but digits, points and minus signs and parsed, 0 when that fails.
processedReceipts(list) ==
    [k \in DOMAIN list |->
        IF list[k].total.t # "string" THEN list[k]
        ELSE LET Numeric(c) == c \in Digit \cup {".", "-"}
                 cleaned == SelectSeq(list[k].total.s, Numeric)
                 totalValue == parseFloat(cleaned)
             IN  [list[k] EXCEPT !.total =
                     NumberTotal(IF totalValue.t = "number"
                                 THEN totalValue.n ELSE 0)]]

\* The time zones of the browser: behind UTC, UTC, ahead of UTC.
TimeZones == {"America/New_York", "UTC", "Asia/Kolkata"}

\* new Date(date) read with getFullYear() and getMonth() + 1 in the time
\* zone of the browser. A date of the form YYYY-MM-DD is midnight UTC of that
\* day, which is the day before in a zone behind UTC; another text is no date.
localDate(date, zone) ==
    IF ~DateRegex(date) THEN [valid |-> FALSE, year |-> 0, month |-> 0]
    ELSE LET year == DigitsValue(SubSeq(date, 1, 4))
             month == DigitsValue(SubSeq(date, 6, 7))
             day == DigitsValue(SubSeq(date, 9, 10))
         IN  IF month \notin 1..12 \/ day \notin 1..31
             THEN [valid |-> FALSE, year |-> 0, month |-> 0]
             ELSE IF zone # "America/New_York" \/ day > 1
             THEN [valid |-> TRUE, year |-> year, month |-> month]
             ELSE IF month > 1
             THEN [valid |-> TRUE, year |-> year, month |-> month - 1]
             ELSE [valid |-> TRUE, year |-> year - 1, month |-> 12]

All == <<"a", "l", "l">>

\* filteredReceipts (lines 110-138) for the state of the page.
filteredReceipts ==
    LET lowerCaseSearchTerm == trim(toLowerCase(searchTerm))
        fieldsToSearch(receipt) ==
            {IntegerToString(receipt.id), receipt.receiptNumber,
             receipt.customerName, toString(receipt.total.n),
             receipt.displayStatus}
        matchesSearch(receipt) ==
            \E field \in fieldsToSearch(receipt) :
                includes(toLowerCase(field), lowerCaseSearchTerm)
        matchesStatus(receipt) ==
            statusFilter = All \/ receipt.displayStatus = statusFilter
        receiptDate(receipt) == localDate(receipt.date, timeZone)
        receiptYear(receipt) ==
            IF receiptDate(receipt).valid
            THEN IntegerToString(receiptDate(receipt).year)
            ELSE <<"N", "a", "N">>
        receiptMonth(receipt) ==
            IF ~receiptDate(receipt).valid THEN <<"N", "a", "N">>
            ELSE IF receiptDate(receipt).month < 10
            THEN <<"0">> \o IntegerToString(receiptDate(receipt).month)
            ELSE IntegerToString(receiptDate(receipt).month)
        matchesYear(receipt) ==
            selectedYear = All \/ receiptYear(receipt) = selectedYear
        matchesMonth(receipt) ==
            selectedMonth = All \/ receiptMonth(receipt) = selectedMonth
        Shown(receipt) ==
            /\ matchesSearch(receipt)
            /\ matchesStatus(receipt)
            /\ matchesYear(receipt)
            /\ matchesMonth(receipt)
    IN  SelectSeq(receipts, Shown)

\* ------------------------------------------------------------ the page
\* checkAuthAndFetchReceipts (lines 38-96): without a session the page is
\* left, a session without token or a response that is not ok is an error,
\* and the receipts of an ok response are stored with their totals as numbers.
checkAuthAndFetchReceipts(outcome) ==
    /\ loading
    /\ loading' = FALSE
    /\ CASE outcome = "ok" ->
              /\ receipts' = processedReceipts(responseData)
              /\ UNCHANGED loadError
         [] outcome = "no session" -> UNCHANGED <<receipts, loadError>>
         [] outcome = "no token" ->
              /\ loadError' = "Invalid user session"
              /\ UNCHANGED receipts
         [] outcome = "401" ->
              /\ loadError' = "Session expired"
              /\ UNCHANGED receipts
         [] OTHER ->
              /\ loadError' = "Failed to fetch receipts"
              /\ UNCHANGED receipts
    /\ UNCHANGED <<responseData, timeZone,
                   searchTerm, statusFilter, selectedYear, selectedMonth>>

\* The search input and the menus are rendered once the list is loaded
\* without an error (lines 151-178).
ListShown == ~loading /\ loadError = ""

\* onChange of the search input, and its clear button: lines 200-221.
setSearchTerm(value) ==
    /\ ListShown
    /\ searchTerm' = value
    /\ UNCHANGED <<responseData, timeZone,
                   receipts, loading, loadError, statusFilter, selectedYear, selectedMonth>>

\* The status menu: lines 285-294.
setStatusFilter(value) ==
    /\ ListShown
    /\ statusFilter' = value
    /\ UNCHANGED <<responseData, timeZone,
                   receipts, loading, loadError, searchTerm, selectedYear, selectedMonth>>

\* The year menu: lines 236-246.
setSelectedYear(value) ==
    /\ ListShown
    /\ selectedYear' = value
    /\ UNCHANGED <<responseData, timeZone,
                   receipts, loading, loadError, searchTerm, statusFilter, selectedMonth>>

\* The month menu: lines 260-270.
setSelectedMonth(value) ==
    /\ ListShown
    /\ selectedMonth' = value
    /\ UNCHANGED <<responseData, timeZone,
                   receipts, loading, loadError, searchTerm, statusFilter, selectedYear>>

\* ------------------------------------------------------- specifications
\* The tables the handlers may find: every owner has either just registered
\* or completed the profile before, each with a store contact of its own.
InitialTables ==
    {table \in [UserIds -> {FreshRow(i) : i \in UserIds}
                              \cup {CompleteRow(i) : i \in UserIds}] :
        \A i \in UserIds : table[i].id = i}

\* The list page as ViewReceipts mounts it, for a response and a time zone
\* that play no part.
ListInit ==
    /\ responseData = <<>>
    /\ timeZone = "UTC"
    /\ receipts = <<>>
    /\ loading = TRUE
    /\ loadError = ""
    /\ searchTerm = <<>>
    /\ statusFilter = All
    /\ selectedYear = All
    /\ selectedMonth = All

\* The page as CreateReceipt mounts it.
PageInit ==
    /\ receiptData = InitialReceiptData
    /\ paymentDetails = NoPaymentDetails
    /\ errors = {}
    /\ isSubmitting = FALSE
    /\ page = "loading"
    /\ effectPending = FALSE
    /\ posts = {}

NoBody == [parses |-> FALSE, data |-> NoPayload]
NoPatchBody == [parses |-> FALSE, isProfileComplete |-> Undef]

NoRequest ==
    [method |-> "", authHeader |-> NoHeader, contentType |-> "",
     body |-> NoBody, patch |-> NoPatchBody]

\* What the requests carry where handlers of several requests interleave:
\* the token of an owner, a body for each way a store contact can collide or
\* be refused, a flag set or cleared; the database answers every call.
\* (SpecOne below draws one request from everything a caller can send.)
ConcurrentHeaders == {BearerOf(i) : i \in UserIds}

ConcurrentOutcomes == {NoError}

\* A probe that fails there fails at getConnection().
ConcurrentProbes == {"ok", "getConnection fails"}

ConcurrentBodies ==
    [parses : {TRUE},
     data : [name : {Str(<<"n">>)},
             storeName : {Str(<<"n">>)},
             storeAddress : {Str(<<"n">>)},
             storeContact : {Str(<<"1", "2", "3", "4", "5">>)}
                               \cup {ContactOf(i) : i \in UserIds},
             storeCountryCode : {Str(<<"+", "9", "1">>)},
             gstNumber : {Undef},
             profilePhoto : {Str(<<"p">>)}]]

ConcurrentPatchBodies == [parses : {TRUE}, isProfileComplete : {True, False}]

Init ==
    /\ users \in InitialTables
    /\ inflight = [s \in Slots |-> Idle]
    /\ resp = NoResponse
    /\ started = 0
    /\ request = NoRequest
    /\ checkedOut = 0
    /\ PageInit
    /\ ListInit

\* Requests of any method arrive at any time; PUT handlers interleave at
\* their database calls.
Next ==
    \/ \E probe \in ConcurrentProbes, authHeader \in ConcurrentHeaders,
          outcome \in ConcurrentOutcomes :
          GET(probe, authHeader, outcome)
    \/ \E probe \in ConcurrentProbes, authHeader \in ConcurrentHeaders :
          PutBegin(probe, authHeader)
    \/ \E s \in Slots, body \in ConcurrentBodies :
          PutValidate(s, "application/json", body)
    \/ \E s \in Slots, outcome \in ConcurrentOutcomes : PutCheckUnique(s, outcome)
    \/ \E s \in Slots, outcome \in ConcurrentOutcomes : PutUpdate(s, outcome)
    \/ \E s \in Slots, outcome \in ConcurrentOutcomes : PutRefetch(s, outcome)
    \/ \E probe \in ConcurrentProbes, authHeader \in ConcurrentHeaders,
          body \in ConcurrentPatchBodies, outcome \in ConcurrentOutcomes :
          PATCH(probe, authHeader, body, outcome)

Spec == Init /\ [][Next]_vars

\* One request, followed from its arrival to its response: the request is
\* drawn at the start from everything a caller can send and kept, so that
\* the response can be set against it.
Requests ==
    [method : {"GET"}, authHeader : Headers, contentType : {""},
     body : {NoBody}, patch : {NoPatchBody}]
        \cup [method : {"PUT"}, authHeader : Headers,
              contentType : ContentTypes, body : Bodies,
              patch : {NoPatchBody}]
        \cup [method : {"PATCH"}, authHeader : Headers, contentType : {""},
              body : {NoBody}, patch : PatchBodies]

InitOne ==
    /\ users \in InitialTables
    /\ inflight = [s \in Slots |-> Idle]
    /\ resp = NoResponse
    /\ started = 0
    /\ request \in Requests
    /\ checkedOut = 0
    /\ PageInit
    /\ ListInit

NextOne ==
    \/ \E probe \in Probes, outcome \in DbOutcomes :
          /\ started = 0
          /\ request.method = "GET"
          /\ GET(probe, request.authHeader, outcome)
    \/ \E probe \in Probes :
          /\ started = 0
          /\ request.method = "PUT"
          /\ PutBegin(probe, request.authHeader)
    \/ \E s \in Slots : PutValidate(s, request.contentType, request.body)
    \/ \E s \in Slots, outcome \in DbOutcomes : PutCheckUnique(s, outcome)
    \/ \E s \in Slots, outcome \in DbOutcomes : PutUpdate(s, outcome)
    \/ \E s \in Slots, outcome \in DbOutcomes : PutRefetch(s, outcome)
    \/ \E probe \in Probes, outcome \in DbOutcomes :
          /\ started = 0
          /\ request.method = "PATCH"
          /\ PATCH(probe, request.authHeader, request.patch, outcome)

SpecOne == InitOne /\ [][NextOne]_vars

\* The receipt page, from its mount.
ReceiptInit ==
    /\ users = [i \in UserIds |-> FreshRow(i)]
    /\ inflight = [s \in Slots |-> Idle]
    /\ resp = NoResponse
    /\ started = 0
    /\ request = NoRequest
    /\ checkedOut = 0
    /\ PageInit
    /\ ListInit

InitializeOutcomes == {"ok", "failed", "no session"}

\* The draft and its totals: what is typed into the inputs of the items and
\* picked in the GST and payment status selects.
QuantityTexts == {<<>>, <<"-", "1">>, <<"1">>}
PriceTexts == {<<>>, <<"5", "0">>}
AdvanceTexts == {<<"4", "0">>}
DueTexts == {<<"3", "0">>}
PaymentStatuses == {"full", "advance", "due"}

DraftNext ==
    \/ \E outcome \in InitializeOutcomes :
          initialize(outcome) /\ UNCHANGED <<profileVars, listVars>>
    \/ addItem /\ UNCHANGED <<profileVars, listVars>>
    \/ \E index \in 1..MaxItems : removeItem(index) /\ UNCHANGED <<profileVars, listVars>>
    \/ \E index \in 1..MaxItems, text \in QuantityTexts :
          onQuantityChange(index, text) /\ UNCHANGED <<profileVars, listVars>>
    \/ \E index \in 1..MaxItems, text \in PriceTexts :
          onPriceChange(index, text) /\ UNCHANGED <<profileVars, listVars>>
    \/ \E index \in 1..MaxItems, text \in AdvanceTexts :
          onAdvanceChange(index, text) /\ UNCHANGED <<profileVars, listVars>>
    \/ \E index \in 1..MaxItems, text \in DueTexts :
          onDueChange(index, text) /\ UNCHANGED <<profileVars, listVars>>
    \/ \E value \in GstItems : onGstChange(value) /\ UNCHANGED <<profileVars, listVars>>
    \/ \E value \in PaymentStatuses :
          onPaymentStatusChange(value) /\ UNCHANGED <<profileVars, listVars>>
    \/ runTotalsEffect /\ UNCHANGED <<profileVars, listVars>>

SpecDraft == ReceiptInit /\ [][DraftNext]_vars

\* React runs the effect of a render before it handles another event.
SpecDraftFair == SpecDraft /\ WF_vars(runTotalsEffect /\ UNCHANGED <<profileVars, listVars>>)

\* The draft and its submission: a receipt of one item, every field of which
\* is typed once or left as it was, the selects, and the answers of the
\* session store and of the create-receipt collaborator.
SubmitQuantityTexts == {<<>>, <<"2">>}
SubmitPriceTexts == {<<>>, <<"5", "0">>}
SubmitAdvanceTexts == {<<"4", "0">>}
SubmitGstItems == {<<"n", "o", "n", "e">>, <<"1", "8">>}
DescriptionTexts == {<<"W">>}
NameTexts == {<<"c">>}
ContactTexts == {[k \in 1..10 |-> "9"]}
PhoneTexts == {[k \in 1..9 |-> "9"], [k \in 1..10 |-> "9"]}
PaymentTypes == {"cash", "online"}
Sessions == {"none", "no token", "ok"}

SubmitNext ==
    \/ \E outcome \in InitializeOutcomes :
          initialize(outcome) /\ UNCHANGED <<profileVars, listVars>>
    \/ \E text \in DescriptionTexts :
          onDescriptionChange(1, text) /\ UNCHANGED <<profileVars, listVars>>
    \/ \E text \in SubmitQuantityTexts :
          onQuantityChange(1, text) /\ UNCHANGED <<profileVars, listVars>>
    \/ \E text \in SubmitPriceTexts :
          onPriceChange(1, text) /\ UNCHANGED <<profileVars, listVars>>
    \/ \E text \in SubmitAdvanceTexts :
          onAdvanceChange(1, text) /\ UNCHANGED <<profileVars, listVars>>
    \/ \E value \in SubmitGstItems : onGstChange(value) /\ UNCHANGED <<profileVars, listVars>>
    \/ \E value \in PaymentTypes :
          onPaymentTypeChange(value) /\ UNCHANGED <<profileVars, listVars>>
    \/ \E value \in PaymentStatuses :
          onPaymentStatusChange(value) /\ UNCHANGED <<profileVars, listVars>>
    \/ \E value \in NameTexts :
          handleChange("customerName", value) /\ UNCHANGED <<profileVars, listVars>>
    \/ \E value \in ContactTexts :
          handlePhoneChange(value) /\ UNCHANGED <<profileVars, listVars>>
    \/ \E value \in PhoneTexts :
          handlePaymentPhoneChange(value) /\ UNCHANGED <<profileVars, listVars>>
    \/ runTotalsEffect /\ UNCHANGED <<profileVars, listVars>>
    \/ \E session \in Sessions : handleSubmit(session) /\ UNCHANGED <<profileVars, listVars>>
    \/ \E body \in posts, ok \in BOOLEAN :
          handleSubmitResponse(body, ok) /\ UNCHANGED <<profileVars, listVars>>

SpecSubmit == ReceiptInit /\ [][SubmitNext]_vars

\* The amounts of a one-item receipt and its submission: advances above the
\* total and below 0, a due below 0, in each payment status.
AmountsAdvanceTexts == {<<"2", "0", "0">>, <<"-", "5">>}
AmountsDueTexts == {<<"-", "3">>}

AmountsNext ==
    \/ \E outcome \in InitializeOutcomes :
          initialize(outcome) /\ UNCHANGED <<profileVars, listVars>>
    \/ \E text \in DescriptionTexts :
          onDescriptionChange(1, text) /\ UNCHANGED <<profileVars, listVars>>
    \/ \E text \in SubmitQuantityTexts :
          onQuantityChange(1, text) /\ UNCHANGED <<profileVars, listVars>>
    \/ \E text \in SubmitPriceTexts :
          onPriceChange(1, text) /\ UNCHANGED <<profileVars, listVars>>
    \/ \E text \in AmountsAdvanceTexts :
          onAdvanceChange(1, text) /\ UNCHANGED <<profileVars, listVars>>
    \/ \E text \in AmountsDueTexts :
          onDueChange(1, text) /\ UNCHANGED <<profileVars, listVars>>
    \/ \E value \in PaymentStatuses :
          onPaymentStatusChange(value) /\ UNCHANGED <<profileVars, listVars>>
    \/ \E value \in NameTexts :
          handleChange("customerName", value) /\ UNCHANGED <<profileVars, listVars>>
    \/ \E value \in ContactTexts :
          handlePhoneChange(value) /\ UNCHANGED <<profileVars, listVars>>
    \/ runTotalsEffect /\ UNCHANGED <<profileVars, listVars>>
    \/ \E session \in Sessions : handleSubmit(session) /\ UNCHANGED <<profileVars, listVars>>
    \/ \E body \in posts, ok \in BOOLEAN :
          handleSubmitResponse(body, ok) /\ UNCHANGED <<profileVars, listVars>>

SpecAmounts == ReceiptInit /\ [][AmountsNext]_vars

\* The receipts /api/viewreceipts may send: totals as a currency string, as
\* a number and as a text without a number; dates on the first of a year,
\* inside a month, and a text that is no date.
ReceiptsSent ==
    {[id |-> 1, receiptNumber |-> <<"R", "1">>,
      date |-> <<"2", "0", "2", "5", "-", "0", "1", "-", "0", "1">>,
      customerName |-> <<"A", "n", "n">>,
      total |-> StringTotal(<<"₹", "1", ",", "2", "3", "4", ".", "5", "0">>),
      displayStatus |-> <<"d", "u", "e">>],
     [id |-> 2, receiptNumber |-> <<"R", "2">>,
      date |-> <<"2", "0", "2", "4", "-", "1", "2", "-", "1", "5">>,
      customerName |-> <<"B", "o">>,
      total |-> NumberTotal(100 * Unit),
      displayStatus |-> <<"f", "u", "l", "l">>],
     [id |-> 3, receiptNumber |-> <<"R", "3">>,
      date |-> <<"s", "o", "o", "n">>,
      customerName |-> <<>>,
      total |-> StringTotal(<<"n", "/", "a">>),
      displayStatus |-> <<"d", "u", "e", "_", "p", "a", "i", "d">>]}

\* The responses: up to MaxReceipts receipts, each sent once.
Responses ==
    UNION {{list \in [1..n -> ReceiptsSent] :
               \A i, j \in 1..n : list[i] = list[j] => i = j} :
           n \in 0..MaxReceipts}

ListPageInit ==
    /\ users = [i \in UserIds |-> FreshRow(i)]
    /\ inflight = [s \in Slots |-> Idle]
    /\ resp = NoResponse
    /\ started = 0
    /\ request = NoRequest
    /\ checkedOut = 0
    /\ PageInit
    /\ responseData \in Responses
    /\ timeZone \in TimeZones
    /\ receipts = <<>>
    /\ loading = TRUE
    /\ loadError = ""
    /\ searchTerm = <<>>
    /\ statusFilter = All
    /\ selectedYear = All
    /\ selectedMonth = All

FetchOutcomes == {"ok", "no session", "no token", "401", "failed"}
SearchTerms == {<<>>, <<" ", "A", "N", "N", " ">>, <<"1", "2", "3", "4">>,
                <<"d", "u", "e">>}
StatusItems == {All, <<"d", "u", "e">>, <<"f", "u", "l", "l">>}
YearItems == {All, <<"2", "0", "2", "5">>, <<"2", "0", "2", "4">>}
MonthItems == {All, <<"0", "1">>, <<"1", "2">>}

ListNext ==
    \/ \E outcome \in FetchOutcomes :
          checkAuthAndFetchReceipts(outcome) /\ UNCHANGED <<profileVars, draftVars>>
    \/ \E value \in SearchTerms :
          setSearchTerm(value) /\ UNCHANGED <<profileVars, draftVars>>
    \/ \E value \in StatusItems :
          setStatusFilter(value) /\ UNCHANGED <<profileVars, draftVars>>
    \/ \E value \in YearItems :
          setSelectedYear(value) /\ UNCHANGED <<profileVars, draftVars>>
    \/ \E value \in MonthItems :
          setSelectedMonth(value) /\ UNCHANGED <<profileVars, draftVars>>

SpecList == ListPageInit /\ [][ListNext]_vars

\* ------------------------------------------------------------------ claims
\* What the claims call a store contact a row holds: a value, not NULL.
HoldsContact(row, storeContact) ==
    storeContact.t = "string" /\ row.store_contact = storeContact

\* C1: under every interleaving of the handlers, no two distinct rows of the
\* users table hold the same store contact.
C1_UniqueStoreContact ==
    \A i \in UserIds : \A j \in UserIds :
        (i # j /\ users[i].store_contact.t = "string")
            => users[i].store_contact # users[j].store_contact

\* Two PUTs of different owners have both passed the uniqueness query for the
\* same store contact, and one of them has then been refused by the index.
C1_Witness ==
    /\ resp.method = "PUT"
    /\ resp.status = 409
    /\ resp.error = "Duplicate entry: This phone number is already in use."
    /\ \E i \in UserIds :
          /\ resp.authHeader # BearerOf(i)
          /\ users[i].store_contact.t = "string"
          /\ users[i].name = Str(<<"n">>)

\* Another row than userId's holds storeContact.
HeldByAnother(userId, storeContact) ==
    \E j \in UserIds : j # userId /\ HoldsContact(users[j], storeContact)

\* C2: a PUT that reaches its uniqueness query, or its UPDATE, while another
\* row holds the store contact it asks for is answered 409 at that step, and
\* the step writes nothing; no step that answers 409 writes anything.
C2_SecondWriterConflict ==
    [][/\ \A s \in Slots :
            (/\ inflight[s].pc \in {"check", "update"}
             /\ inflight'[s] # inflight[s]
             /\ HeldByAnother(inflight[s].userId,
                              inflight[s].updateData.storeContact))
                => /\ resp'.method = "PUT"
                   /\ resp'.authHeader = BearerOf(inflight[s].userId)
                   /\ resp'.status = 409
                   /\ users' = users
                   /\ inflight'[s] = Idle
       /\ (resp' # resp /\ resp'.status = 409) => users' = users]_vars

\* The second writer was refused by the uniqueness query: its row is still
\* the one it registered with, and the first writer's row holds the contact.
C2_Witness ==
    /\ resp.method = "PUT"
    /\ resp.status = 409
    /\ resp.error = "This phone number is already registered to another account."
    /\ \E i \in UserIds : \E j \in UserIds :
          /\ resp.authHeader = BearerOf(j)
          /\ users[j] = FreshRow(j)
          /\ i # j
          /\ users[i].name = Str(<<"n">>)
          /\ users[i].store_contact = ContactOf(j)

\* The claims' own reading of the request, apart from the handler's.
Mandatory ==
    {"name", "storeName", "storeAddress", "storeContact", "storeCountryCode"}

\* A field that is missing or empty.
Empty(v) == v.t \in {"undefined", "null"} \/ (v.t = "string" /\ Len(v.s) = 0)

MissingSet(data) == {f \in Mandatory : Empty(data[f])}

\* Exactly 10 digits.
TenDigits(v) ==
    /\ v.t = "string"
    /\ Len(v.s) = 10
    /\ \A k \in DOMAIN v.s : v.s[k] \in Digit

\* Exactly 15 characters of [0-9A-Z].
FifteenAlnum(v) ==
    /\ v.t = "string"
    /\ Len(v.s) = 15
    /\ \A k \in DOMAIN v.s : v.s[k] \in Digit \cup Upper

ContentTypeOk == request.contentType = "application/json"
PresenceOk == MissingSet(request.body.data) = {}
ContactOk == TenDigits(request.body.data.storeContact)
GstOk ==
    Empty(request.body.data.gstNumber)
        \/ FifteenAlnum(request.body.data.gstNumber)

\* The identity the request's token stands for; 0 when it stands for none.
Caller ==
    IF /\ request.authHeader.present
       /\ request.authHeader.scheme = "Bearer "
       /\ request.authHeader.token.kind = "valid"
    THEN request.authHeader.token.uid
    ELSE 0

\* The payload fails validation.
C3_Invalid ==
    /\ request.method = "PUT"
    /\ \/ ~ContentTypeOk
       \/ /\ request.body.parses
          /\ (~PresenceOk \/ ~ContactOk \/ ~GstOk)

\* C3: a PUT whose payload fails validation never changes the users table,
\* and the handler that has resolved its caller answers it 400 at the checks.
C3_InvalidNotPersisted ==
    [][C3_Invalid =>
          /\ users' = users
          /\ \A s \in Slots :
                (inflight[s].pc = "authed" /\ inflight'[s] # inflight[s])
                    => /\ resp'.method = "PUT"
                       /\ resp'.status = 400
                       /\ inflight'[s] = Idle]_vars

\* The 5-digit store contact "12345" was refused, and the row it was meant
\* for is as it was.
C3_Witness ==
    /\ request.body.data.storeContact = Str(<<"1", "2", "3", "4", "5">>)
    /\ request.body.data.gstNumber = ValidGst
    /\ resp.method = "PUT"
    /\ resp.status = 400
    /\ resp.error = "Store contact must be exactly 10 digits"
    /\ users[1] = CompleteRow(1)
    /\ Caller = 1

Range(seq) == {seq[k] : k \in DOMAIN seq}

\* C4: the 400 answer to missing mandatory fields lists each missing or empty
\* mandatory field once, and no other field.
C4_AllMissingFields ==
    request.method = "PUT" =>
        /\ resp.error = "Missing required fields" =>
              /\ resp.status = 400
              /\ Range(resp.missingFields) = MissingSet(request.body.data)
              /\ Len(resp.missingFields) = Cardinality(MissingSet(request.body.data))
        /\ (/\ resp.status = 400
            /\ ContentTypeOk
            /\ request.body.parses
            /\ ~PresenceOk)
              => resp.error = "Missing required fields"

\* Three mandatory fields were missing, each falsy in its own way, and the
\* answer names the three.
C4_Witness ==
    /\ request.body.data.name = Undef
    /\ request.body.data.storeName = Str(<<>>)
    /\ request.body.data.storeAddress = Null
    /\ request.body.data.storeContact = ContactOf(1)
    /\ request.body.data.storeCountryCode = Str(<<"+", "9", "1">>)
    /\ resp.status = 400
    /\ Len(resp.missingFields) = 3

\* The message of the first check, in the order content type, presence,
\* store contact format, GST format, uniqueness, that the request fails.
C5_FirstFailing ==
    IF ~ContentTypeOk THEN "Invalid content type. Must be application/json"
    ELSE IF ~PresenceOk THEN "Missing required fields"
    ELSE IF ~ContactOk THEN "Store contact must be exactly 10 digits"
    ELSE IF ~GstOk
    THEN "GST number must be exactly 15 alphanumeric characters"
    ELSE IF HeldByAnother(Caller, request.body.data.storeContact)
    THEN "This phone number is already registered to another account."
    ELSE ""

\* C5: a 400 or 409 answer carries the message of the first failing check; the
\* uniqueness query is reached only by a request that passes the four checks
\* on the request, the UPDATE only by one that passes the uniqueness query
\* too; an answer of 200 or 404 means that no check failed.
C5_CheckOrder ==
    request.method = "PUT" =>
        /\ resp.status \in {400, 409} => resp.error = C5_FirstFailing
        /\ resp.status \in {200, 404} => C5_FirstFailing = ""
        /\ \A s \in Slots :
              /\ inflight[s].pc \in {"check", "update", "refetch"}
                    => /\ request.body.parses
                       /\ ContentTypeOk /\ PresenceOk /\ ContactOk /\ GstOk
              /\ inflight[s].pc \in {"update", "refetch"}
                    => C5_FirstFailing = ""

\* A request failing three checks at once (a missing name, a malformed GST
\* number, a store contact another row holds) was answered with the first.
C5_Witness ==
    /\ request.body.data.name = Undef
    /\ request.body.data.gstNumber = Str(<<"a", "b", "c">>)
    /\ Caller = 1
    /\ HeldByAnother(1, request.body.data.storeContact)
    /\ resp.status = 400
    /\ resp.error = "Missing required fields"

\* C6: the UPDATE of a PUT leaves the stored photo as it was when the payload
\* has no profilePhoto key, stores NULL when the key carries null or "", and
\* stores a non-empty value as given.
C6_ProfilePhoto ==
    [][\A s \in Slots :
          (/\ request.method = "PUT"
           /\ inflight[s].pc = "update"
           /\ inflight'[s].pc = "refetch"
           /\ inflight[s].userId \in UserIds)
              => LET profilePhoto == request.body.data.profilePhoto
                     before == users[inflight[s].userId].profile_photo
                     after == users'[inflight[s].userId].profile_photo
                 IN  /\ profilePhoto.t = "undefined" => after = before
                     /\ Empty(profilePhoto) /\ profilePhoto.t # "undefined"
                           => after.t = "null"
                     /\ ~Empty(profilePhoto) => after = profilePhoto]_vars

\* A PUT without the profilePhoto key succeeded and the photo stored before
\* it is still there.
C6_Witness ==
    /\ request.body.data.profilePhoto = Undef
    /\ resp.method = "PUT"
    /\ resp.status = 200
    /\ Caller \in UserIds
    /\ users[Caller].name = Str(<<"n">>)
    /\ users[Caller].profile_photo = Str(<<"o">>)

\* C7: after a successful PUT the caller's stored flag is set and the five
\* mandatory columns of the row are non-empty, and the row sent back says so.
C7_CompleteAfterPut ==
    (request.method = "PUT" /\ resp.method = "PUT" /\ resp.status = 200)
        => /\ Caller \in UserIds
           /\ users[Caller].profile_complete = 1
           /\ ~Empty(users[Caller].name)
           /\ ~Empty(users[Caller].store_name)
           /\ ~Empty(users[Caller].store_address)
           /\ ~Empty(users[Caller].store_contact)
           /\ ~Empty(users[Caller].store_country_code)
           /\ \A row \in resp.body : row.isProfileComplete = 1

\* A PUT without a GST number succeeded on a row whose flag was clear before.
C7_Witness ==
    /\ request.method = "PUT"
    /\ resp.status = 200
    /\ Caller \in UserIds
    /\ users[Caller].profile_complete = 1
    /\ users[Caller].gst_number = Null
    /\ users[Caller].profile_photo = Null
    /\ request.body.data.profilePhoto = Undef

\* C8: a PATCH answered 200 has set the caller's flag to the truthiness of the
\* value supplied and left every other column and row alone; a PATCH of a
\* caller whose id matches no row is answered 404, and only such a PATCH is;
\* a PATCH answered otherwise has written nothing.
C8_PatchOverwritesFlag ==
    [][(request.method = "PATCH" /\ resp'.method = "PATCH")
          => /\ resp'.status = 200
                   => /\ Caller \in UserIds
                      /\ users' =
                            [users EXCEPT
                               ![Caller].profile_complete =
                                  IF request.patch.isProfileComplete.t = "true"
                                  THEN 1 ELSE 0]
             /\ resp'.status # 200 => users' = users
             /\ resp'.status = 404 => Caller = GhostId
             /\ (Caller = GhostId /\ resp'.status \in {200, 404})
                   => resp'.status = 404]_vars

\* The flag is set on a row whose mandatory fields were never filled in.
C8_Witness ==
    /\ request.method = "PATCH"
    /\ resp.status = 200
    /\ Caller \in UserIds
    /\ users[Caller].profile_complete = 1
    /\ users[Caller].name = Str(<<>>)
    /\ users[Caller].store_contact = Null

\* The Authorization header is missing, is not a bearer header, or carries a
\* token the verifier rejects or finds expired.
C9_Unauthenticated ==
    \/ ~request.authHeader.present
    \/ request.authHeader.scheme # "Bearer "
    \/ request.authHeader.token.kind \in {"invalid", "expired"}

\* C9 (as claimed): once the database has answered the ping, a request that
\* is not authenticated is answered 401, with no profile in the answer.
C9_Claimed ==
    (/\ C9_Unauthenticated
     /\ resp.method # ""
     /\ resp.error # "Database connection failed")
        => resp.status = 401 /\ resp.body = {}

\* C10: a request changes no row but the caller's own, and no request changes
\* the id, the superkey or the creation timestamp of any row.
C10_OwnRowOnly ==
    [][\A i \in UserIds :
          /\ i # Caller => users'[i] = users[i]
          /\ users'[i].id = users[i].id
          /\ users'[i].superkey = users[i].superkey
          /\ users'[i].created_at = users[i].created_at]_vars

\* Owner 1 rewrote a completed profile; the row of owner 2 is untouched and
\* row 1 kept its id, superkey and creation timestamp.
C10_Witness ==
    /\ request.method = "PUT"
    /\ resp.status = 200
    /\ Caller = 1
    /\ users[1].name = Str(<<"n">>)
    /\ users[1].gst_number = ValidGst
    /\ users[1].superkey = SuperkeyOf(1)
    /\ users[2] = CompleteRow(2)

\* Every slot is idle and a response was sent: the request has completed.
Completed == resp.method # "" /\ \A s \in Slots : inflight[s] = Idle

\* C11 (as claimed): once a request has completed, as many connections are
\* checked out of the pool as before it started, which is none.
C11_Claimed == Completed => checkedOut = 0

\* C12 (as claimed): a GET or PUT answered 500 met a corrupt row or a failure
\* that is not the database's (a body that is not JSON); a database that is
\* unreachable or fails a call is answered 503.
C12_Claimed ==
    (resp.method \in {"GET", "PUT"} /\ resp.status = 500)
        => \/ resp.error = "Incomplete user data"
           \/ resp.details = JsonSyntaxError.message

\* The answers a handler gives when the probe or a database call failed.
DatabaseFailureAnswers ==
    {"Database connection failed", "Database error occurred",
     "Internal server error"}

\* The names among superkey and mobile whose column is empty in the row.
FalsyOf(row) ==
    {f \in {"superkey", "mobile"} :
        Empty(IF f = "superkey" THEN row.superkey ELSE row.store_contact)}

\* C13: a GET of an authenticated caller changes no row; when the database
\* answers, it is answered 404 if no row has the caller's id, 500 naming the
\* empty fields among superkey and mobile if the row has any, and otherwise
\* 200 with isProfileComplete TRUE or FALSE as the stored flag is 1 or 0.
C13_AuthenticatedGet ==
    [][(request.method = "GET" /\ Caller # 0 /\ started' # started)
          => /\ users' = users
             /\ resp'.method = "GET"
             /\ resp'.error \notin DatabaseFailureAnswers
                   => IF Caller \notin UserIds
                      THEN resp'.status = 404 /\ resp'.body = {}
                      ELSE IF FalsyOf(users[Caller]) # {}
                      THEN /\ resp'.status = 500
                           /\ resp'.error = "Incomplete user data"
                           /\ Range(resp'.missingFields) = FalsyOf(users[Caller])
                           /\ resp'.body = {}
                      ELSE /\ resp'.status = 200
                           /\ Cardinality(resp'.body) = 1
                           /\ \A profile \in resp'.body :
                                 /\ profile.id = Caller
                                 /\ profile.isProfileComplete =
                                       (users[Caller].profile_complete = 1)]_vars

\* A GET was answered 200 with isProfileComplete TRUE.
C13_Witness ==
    /\ request.method = "GET"
    /\ resp.status = 200
    /\ \E profile \in resp.body :
          profile.isProfileComplete = TRUE /\ profile.id = Caller

\* ------------------------------------------------ claims: the receipt page
\* The claims' own arithmetic, apart from the page's: a quantity or price
\* that is no number or is below 0 counts as 0.
AtLeastZero(v) == IF v.t = "number" /\ v.n > 0 THEN v.n ELSE 0

RECURSIVE SubtotalTo(_, _)
SubtotalTo(items, k) ==
    IF k = 0 THEN 0
    ELSE SubtotalTo(items, k - 1)
            + AtLeastZero(items[k].quantity) * AtLeastZero(items[k].price)

Subtotal == SubtotalTo(receiptData.items, Len(receiptData.items))

\* An advance or due that is absent or no number counts as 0.
RECURSIVE AmountsTo(_, _, _)
AmountsTo(items, field, k) ==
    IF k = 0 THEN 0
    ELSE LET v == IF field = "advanceAmount" THEN items[k].advanceAmount
                  ELSE items[k].dueAmount
         IN  AmountsTo(items, field, k - 1) + (IF v.t = "number" THEN v.n ELSE 0)

Advances == AmountsTo(receiptData.items, "advanceAmount", Len(receiptData.items))
Dues == AmountsTo(receiptData.items, "dueAmount", Len(receiptData.items))

\* The form is shown and the effect has run on the draft as it is.
Recomputed == page = "open" /\ ~effectPending

\* C14 (as claimed): in every state of the draft, the one between an edit and
\* the effect included, gstAmount is 0 when gstPercentage is null and total
\* is subtotal + gstAmount.
C14_Claimed ==
    /\ receiptData.gstPercentage.t = "null" => receiptData.gstAmount = 0
    /\ receiptData.total = Subtotal + receiptData.gstAmount

\* C15: once the effect has run, the stored quantities and prices are numbers
\* of at least 0, gstAmount is subtotal * gstPercentage / 100 (0 without a
\* percentage) and total is subtotal + gstAmount, for the items and the
\* percentage of the draft as it is.
C15_Recomputed ==
    Recomputed =>
        /\ \A k \in DOMAIN receiptData.items :
              /\ receiptData.items[k].quantity.t = "number"
              /\ receiptData.items[k].quantity.n >= 0
              /\ receiptData.items[k].price.t = "number"
              /\ receiptData.items[k].price.n >= 0
        /\ receiptData.gstPercentage.t \in {"null", "number"}
        /\ receiptData.gstAmount * 100 =
              Subtotal * (IF receiptData.gstPercentage.t = "number"
                          THEN receiptData.gstPercentage.n ELSE 0)
        /\ receiptData.total = Subtotal + receiptData.gstAmount

\* Two items of quantity 1 priced 50, at 18% GST: gstAmount 18, total 118.
C15_Witness ==
    /\ Recomputed
    /\ Len(receiptData.items) = 2
    /\ \A k \in {1, 2} :
          /\ receiptData.items[k].quantity = Num(1)
          /\ receiptData.items[k].price = Num(50 * Unit)
    /\ receiptData.gstPercentage = Num(18)
    /\ receiptData.gstAmount = 18 * Unit
    /\ receiptData.total = 118 * Unit

\* C16: once the effect has run on a draft in "full" status, dueTotal is 0.
C16_FullDueTotalZero ==
    (Recomputed /\ receiptData.paymentStatus = "full")
        => receiptData.dueTotal = 0

\* A draft back in "full" status whose item still carries the advance and the
\* due typed earlier.
C16_Witness ==
    /\ Recomputed
    /\ receiptData.paymentStatus = "full"
    /\ receiptData.total > 0
    /\ receiptData.items[1].advanceAmount = Num(40 * Unit)
    /\ receiptData.items[1].dueAmount = Num(30 * Unit)
    /\ receiptData.dueTotal = 0

\* C17: once the effect has run on a draft in "advance" status, dueTotal is
\* total less the advances of the items, below 0 when they exceed total.
C17_AdvanceDueTotal ==
    (Recomputed /\ receiptData.paymentStatus = "advance")
        => receiptData.dueTotal = receiptData.total - Advances

\* Two advances of 40 against a total of 50: dueTotal is -30.
C17_Witness ==
    /\ Recomputed
    /\ receiptData.paymentStatus = "advance"
    /\ receiptData.total > 0
    /\ Advances > receiptData.total
    /\ receiptData.dueTotal < 0

\* C18: once the effect has run on a draft in "due" status, dueTotal is the
\* sum of the dues of the items, whatever total and the advances are.
C18_DueDueTotal ==
    (Recomputed /\ receiptData.paymentStatus = "due")
        => receiptData.dueTotal = Dues

\* A due of 30 on an item that also carries an advance, the total being 100.
C18_Witness ==
    /\ Recomputed
    /\ receiptData.paymentStatus = "due"
    /\ receiptData.total = 100 * Unit
    /\ Advances = 40 * Unit
    /\ receiptData.dueTotal = 30 * Unit

\* C19: a draft in "due" status has payment type "cash" and no GST
\* percentage, and a body POSTed with status "due" carries "cash".
C19_DueIsCash ==
    /\ receiptData.paymentStatus = "due"
          => /\ receiptData.paymentType = "cash"
             /\ receiptData.gstPercentage.t = "null"
    /\ \A body \in posts :
          body.paymentStatus = "due" => body.paymentType = "cash"

\* A receipt was POSTed as due and cash by a session that had picked
\* "online" before (the payment phone input is shown for "online" alone).
C19_Witness ==
    /\ paymentDetails.entered
    /\ \E body \in posts :
          body.paymentStatus = "due" /\ body.paymentType = "cash"

\* The phone number entered has 10 characters, all digits.
TenDigitPhone(details) ==
    /\ details.entered
    /\ Len(details.phoneNumber) = 10
    /\ \A k \in DOMAIN details.phoneNumber : details.phoneNumber[k] \in Digit

PhonePath == <<"paymentDetails", "phoneNumber">>

WellFormedBody(body) ==
    /\ Len(body.receiptNumber) >= 1
    /\ Len(body.customerName) >= 1
    /\ Len(body.items) >= 1
    /\ \A k \in DOMAIN body.items :
          /\ Len(body.items[k].description) >= 1
          /\ body.items[k].quantity.t = "number"
          /\ body.items[k].quantity.n >= 1
          /\ body.items[k].price.t = "number"
          /\ body.items[k].price.n * 100 >= Unit

\* C21: every receipt POSTed is well formed, and no step adds a POST for a
\* draft the schema refuses: a quantity or price of 0, typed or left by the
\* coercion of an empty input, is reported and not sent.
C21_SchemaGate ==
    [][/\ \A body \in posts' : WellFormedBody(body)
       /\ ReceiptSchema(receiptData) # {} => posts' \subseteq posts]_vars

\* A submit of a draft filled in but for the quantity, which the emptied
\* input left at 0, was answered with the quantity's path alone.
C21_Witness ==
    /\ receiptData.items[1].quantity = Num(0)
    /\ receiptData.items[1].price = Num(50 * Unit)
    /\ Len(receiptData.items[1].description) >= 1
    /\ errors = {<<"items", 0, "quantity">>}
    /\ posts = {}
    /\ ~isSubmitting

\* Every path a submit attempt on the draft violates: those of the schema
\* and, for an online draft not due without a 10-digit number, the payment
\* phone's.
ViolatedPaths ==
    ReceiptSchema(receiptData)
        \cup (IF /\ receiptData.paymentType = "online"
                 /\ receiptData.paymentStatus # "due"
                 /\ ~TenDigitPhone(paymentDetails)
              THEN {PhonePath} ELSE {})

\* C22 (as claimed): a submit attempt that fails validation reports every
\* violated path together, the payment phone's with the schema's.
C22_Claimed ==
    [][(/\ errors' # errors
        /\ errors' # {<<"form">>}
        /\ posts' = posts
        /\ page' = page)
          => errors' = ViolatedPaths]_vars

\* C24: the draft has at least one item in every state add and remove
\* clicks lead to: the click on remove is without effect on a one-item list.
C24_AtLeastOneItem == Len(receiptData.items) >= 1

\* A list of one item left by a removal: the priced item was removed, the
\* total of the two is still shown, the item that remains is an empty one.
C24_Witness ==
    /\ page = "open"
    /\ Len(receiptData.items) = 1
    /\ receiptData.items[1].quantity = Num(0)
    /\ receiptData.items[1].price = Num(0)
    /\ receiptData.total > 0

\* An item of the list carries an advance or a due below 0.
NegativeAmount(items) ==
    \E k \in DOMAIN items :
        \/ items[k].advanceAmount.t = "number" /\ items[k].advanceAmount.n < 0
        \/ items[k].dueAmount.t = "number" /\ items[k].dueAmount.n < 0

\* A receipt in "advance" status whose advances exceed its total, or one
\* with an amount below 0 in an item.
Overdrawn(data) ==
    \/ /\ data.paymentStatus = "advance"
       /\ AmountsTo(data.items, "advanceAmount", Len(data.items)) > data.total
    \/ NegativeAmount(data.items)

AmountPaths ==
    {<<"dueTotal">>, <<"items", 0, "advanceAmount">>, <<"items", 0, "dueAmount">>}

\* C25: no receipt in flight is overdrawn or carries an amount below 0, no
\* step sends a POST for such a draft, and the submit attempt on it that
\* reports paths reports dueTotal or the item's amount among them.
C25_NegativeNeverPosted ==
    [][/\ \A body \in posts' : ~Overdrawn(body)
       /\ Overdrawn(receiptData)
             => /\ posts' \subseteq posts
                /\ (/\ errors' # errors
                    /\ errors' # {<<"form">>}
                    /\ posts' = posts
                    /\ page' = page)
                      => errors' \cap AmountPaths # {}]_vars

\* The submit of a draft complete but for its advance of 200 against a total
\* of 100 was answered with dueTotal alone.
C25_Witness ==
    /\ receiptData.paymentStatus = "advance"
    /\ receiptData.total = 100 * Unit
    /\ receiptData.items[1].advanceAmount = Num(200 * Unit)
    /\ receiptData.dueTotal = 0 - 100 * Unit
    /\ errors = {<<"dueTotal">>}
    /\ posts = {}

\* C26: the step taken while the effect is pending, which is the effect's,
\* leaves items, paymentStatus and gstPercentage as they were and the effect
\* no longer pending, running it again would change nothing, and a pending
\* effect does run: the draft becomes stable.
C26_EffectFixedPoint ==
    /\ [][effectPending
            => /\ dependencies(receiptData') = dependencies(receiptData)
               /\ ~effectPending'
               /\ totalsEffect(receiptData') = receiptData']_vars
    /\ effectPending ~> ~effectPending

\* The effect has rewritten total, gstAmount and dueTotal of an advance
\* draft at 18% GST and is not pending.
C26_Witness ==
    /\ Recomputed
    /\ receiptData.paymentStatus = "advance"
    /\ receiptData.gstPercentage = Num(18)
    /\ receiptData.gstAmount > 0
    /\ receiptData.dueTotal # 0
    /\ receiptData.total > receiptData.gstAmount

\* C27: isSubmitting is TRUE exactly while a POST is in flight, and at most
\* one POST is in flight.
C27_OnePostInFlight ==
    /\ isSubmitting <=> posts # {}
    /\ Cardinality(posts) <= 1

\* A POST is in flight, and the payment status of the draft was changed
\* after it was sent.
C27_Witness ==
    /\ isSubmitting
    /\ Cardinality(posts) = 1
    /\ \E body \in posts : body.paymentStatus # receiptData.paymentStatus

\* C28: the UPDATE of a PUT stores NULL as the GST number when the payload
\* has no gstNumber or carries null or "", whatever was stored before, and
\* stores a non-empty gstNumber as given.
C28_GstNumberWritten ==
    [][\A s \in Slots :
          (/\ request.method = "PUT"
           /\ inflight[s].pc = "update"
           /\ inflight'[s].pc = "refetch"
           /\ inflight[s].userId \in UserIds)
              => LET gstNumber == request.body.data.gstNumber
                     after == users'[inflight[s].userId].gst_number
                 IN  /\ Empty(gstNumber) => after.t = "null"
                     /\ ~Empty(gstNumber) => after = gstNumber]_vars

\* A PUT without the gstNumber key succeeded on the row of an owner who had
\* a GST number stored (the photo stored with it is still there): the GST
\* number is NULL now.
C28_Witness ==
    /\ request.body.data.gstNumber = Undef
    /\ request.body.data.profilePhoto = Undef
    /\ resp.method = "PUT"
    /\ resp.status = 200
    /\ Caller \in UserIds
    /\ users[Caller].name = Str(<<"n">>)
    /\ users[Caller].profile_photo = Str(<<"o">>)
    /\ users[Caller].gst_number = Null

\* ------------------------------------------------ claims: the receipt list
\* The four predicates as the claim has them, the year and the month being
\* those written in the receipt's date.
SearchMatches(receipt) ==
    \E field \in {IntegerToString(receipt.id), receipt.receiptNumber,
                   receipt.customerName, toString(receipt.total.n),
                   receipt.displayStatus} :
        includes(toLowerCase(field), trim(toLowerCase(searchTerm)))

StatusMatches(receipt) ==
    statusFilter = All \/ statusFilter = receipt.displayStatus

YearMatches(receipt) ==
    \/ selectedYear = All
    \/ DateRegex(receipt.date) /\ selectedYear = SubSeq(receipt.date, 1, 4)

MonthMatches(receipt) ==
    \/ selectedMonth = All
    \/ DateRegex(receipt.date) /\ selectedMonth = SubSeq(receipt.date, 6, 7)

ClaimedShown(receipt) ==
    /\ SearchMatches(receipt)
    /\ StatusMatches(receipt)
    /\ YearMatches(receipt)
    /\ MonthMatches(receipt)

\* The list shown is the list loaded without the receipts that fail one of
\* the four predicates, in the order loaded.
ShownAsClaimed == filteredReceipts = SelectSeq(receipts, ClaimedShown)

\* C23 (as claimed): in every state of the list page, in whatever time zone
\* the browser is, the list shown is the list loaded without the receipts
\* that fail one of the four predicates.
C23_Claimed == ListShown => ShownAsClaimed

\* The same in a browser whose time zone is not behind UTC.
C23_NotBehindUtc ==
    (ListShown /\ timeZone # "America/New_York") => ShownAsClaimed

\* The receipt whose total came as a currency string is shown for the search
\* "1234".
C23_CurrencyFound ==
    /\ ListShown
    /\ searchTerm = <<"1", "2", "3", "4">>
    /\ \E k \in DOMAIN responseData : responseData[k].total.t = "string"
    /\ \E k \in DOMAIN filteredReceipts :
          /\ filteredReceipts[k].id = 1
          /\ filteredReceipts[k].total = NumberTotal(12345 * 1000)

====
